---- MODULE Spec2Model ----
(***************************************************************************)
(* A model of the VSL frontend of svsm: the character-level lexer          *)
(* (src/src/lex.rs), the parser (src/src/parser.rs), the tree-walking      *)
(* evaluator with its environments and built-ins (src/src/interpreter.rs,  *)
(* src/src/interpreter/builtins.rs) and the converter from the evaluated   *)
(* system.config to a System (src/src/interpreter/system_converter.rs).    *)
(*                                                                         *)
(* The specifications share the variables: LexSpec runs the lexer over     *)
(* bounded inputs, ParseSpec runs the parser over bounded token lists,     *)
(* GrammarSpec runs it over token lists written from the grammar, EvalSpec *)
(* runs the evaluator over bounded forms, ThunkSpec forces thunks by eval  *)
(* and inside print, BuiltinSpec calls the built-ins on bounded argument   *)
(* vectors, ConvertSpec declares a bounded system.config and converts it,  *)
(* CursorSpec moves the interpreter's cursor over bounded programs.        *)
(***************************************************************************)
EXTENDS Integers, Sequences, FiniteSets, TLC

VARIABLES
    \* ---- lexer (struct Lexer, lex.rs:25-37) ----
    input,               \* Lexer.input: the characters, one string per char
    lex,                 \* [pos, row, col]: Lexer.pos / row / col
    tmark,               \* [tpos, trow, tcol]: snapshot at the start of a token
    discard_whitespace,  \* Lexer.discard_whitespace
    discard_eof,         \* Lexer.discard_eof
    tokens,              \* the Vec<SmartToken> tokenize_input_smart is building
    comments,            \* the lexemes of the Discard tokens (history)
    lexState,            \* "idle" | "run" | "done" (returned) | "panic"
    \* ---- evaluator (struct Interpreter, interpreter.rs:20-33) ----
    env,                 \* Interpreter.env
    disable_lazy,        \* Interpreter.disable_lazy
    result,              \* what the last call returned: [panic, val]
    ran,                 \* the built-in bodies the last call entered (history)
    lastForm,            \* the form the last call evaluated (history)
    envBefore,           \* Interpreter.env before the last call (history)
    made,                \* the thunks lazy FnCalls produced (history)
    nCalls,              \* number of calls made so far
    evalState,           \* "idle" | "run" | "panic"
    \* ---- parser (struct Parser, parser.rs:24-28) ----
    parser,              \* [input, parsing_map, pos]
    exprs,               \* the Vec<Expr> parse_input is building
    parseState,          \* "idle" | "run" | "done" | "panic" | "diverge"
    parseMsg,            \* which panic! ended the parse
    \* ---- converter (system_converter.rs) ----
    output,              \* what System::from_map returned: None before the
                         \* call, Some([panic, val]) after it
    \* ---- the interpreter's cursor (interpreter.rs:20-22, 170-195) ----
    interp,              \* [input, pos]: Interpreter.input / pos
    history              \* the advance and eval calls made (history):
                         \* [op, from, to, form], pos before and after

lexVars == <<input, lex, tmark, discard_whitespace, discard_eof, tokens,
             comments, lexState>>

evalVars == <<env, disable_lazy, result, ran, lastForm, envBefore, made,
              nCalls, evalState>>

parseVars == <<parser, exprs, parseState, parseMsg>>

convVars == <<output>>

cursorVars == <<interp, history>>

vars == <<lexVars, parseVars, evalVars, convVars, cursorVars>>

-----------------------------------------------------------------------------
(***************************************************************************)
(* Characters.  A character is a one-character string; the character the   *)
(* lexer reads past the end of the input ('\0') is NUL.                    *)
(***************************************************************************)
NUL == "NUL"

Letter == {"a","b","c","d","e","f","g","h","i","j","k","l","m","n","o","p",
           "q","r","s","t","u","v","w","x","y","z","A","B","C","Z","_"}

Digit == {"0","1","2","3","4","5","6","7","8","9"}

AlNum == Letter \cup Digit

\* WHITESPACE, "\\s" on one character
IsWhitespace(c) == c \in {" ", "\n", "\t", "\r"}

\* VALID_SYMBOL: ^[A-Za-z_]+(?:[A-Za-z_0-9]|[A-Za-z_0-9\-][A-Za-z_0-9]+)*$
\* i.e. a letter first, letters/digits/hyphens after it, and every hyphen
\* directly followed by a letter or digit.
ValidSymbol(s) ==
    /\ Len(s) >= 1
    /\ s[1] \in Letter
    /\ \A i \in 1..Len(s) :
          \/ s[i] \in AlNum
          \/ s[i] = "-" /\ i < Len(s) /\ s[i+1] \in AlNum

\* num: ^[0-9]+(?:\.[0-9]+)?$
NumMatch(s) ==
    /\ Len(s) >= 1
    /\ \A i \in 1..Len(s) : s[i] \in Digit \/ s[i] = "."
    /\ Cardinality({i \in 1..Len(s) : s[i] = "."}) <= 1
    /\ s[1] \in Digit
    /\ s[Len(s)] \in Digit

\* str::parse::<f64> on the texts the number arm can build (digits, dots and
\* possibly one trailing other character): Digit+ ('.' Digit* )? is accepted.
ParseF64Ok(s) ==
    /\ Len(s) >= 1
    /\ \A i \in 1..Len(s) : s[i] \in Digit \/ s[i] = "."
    /\ Cardinality({i \in 1..Len(s) : s[i] = "."}) <= 1
    /\ s[1] \in Digit

-----------------------------------------------------------------------------
(***************************************************************************)
(* Lexer primitives.  L is [pos, row, col]; pos is 0-based as in the code. *)
(***************************************************************************)
get_char(inp, L) == IF L.pos >= Len(inp) THEN NUL ELSE inp[L.pos + 1]

peek(inp, L) == IF L.pos + 1 >= Len(inp) THEN NUL ELSE inp[L.pos + 2]

advance(inp, L) ==
    LET p == L.pos + 1
        c == IF p >= Len(inp) THEN NUL ELSE inp[p + 1]
    IN  IF c = "\n"
        THEN [pos |-> p, row |-> L.row + 1, col |-> 1]
        ELSE [pos |-> p, row |-> L.row, col |-> L.col + 1]

backup(L) == IF L.pos > 0 THEN [L EXCEPT !.pos = @ - 1] ELSE L

\* the while loop of collect_to, after the opening character was pushed
RECURSIVE collect_to_loop(_, _, _, _)
collect_to_loop(inp, L, q, txt) ==
    IF get_char(inp, L) # q /\ peek(inp, L) # NUL
    THEN collect_to_loop(inp, advance(inp, L), q, Append(txt, get_char(inp, L)))
    ELSE [L |-> L, text |-> Append(txt, get_char(inp, L))]

collect_to(inp, L, q) ==
    collect_to_loop(inp, advance(inp, L), q, <<get_char(inp, L)>>)

RECURSIVE advance_until(_, _, _)
advance_until(inp, L, q) ==
    IF peek(inp, L) # q /\ peek(inp, L) # NUL
    THEN advance_until(inp, advance(inp, L), q)
    ELSE L

RECURSIVE collect_while_loop(_, _, _)
collect_while_loop(inp, L, tok) ==
    LET c  == get_char(inp, L)
        pk == peek(inp, L)
    IN  IF \/ ValidSymbol(<<c>>) /\ c # NUL
           \/ pk # NUL /\ ValidSymbol(tok \o <<c>>)
           \/ pk # NUL /\ ValidSymbol(tok \o <<c, pk>>)
        THEN collect_while_loop(inp, advance(inp, L), Append(tok, c))
        ELSE [L |-> L, text |-> tok]

collect_while(inp, L) == collect_while_loop(inp, L, <<>>)

\* the while loop of the number arm
RECURSIVE number_loop(_, _, _)
number_loop(inp, L, res) ==
    IF NumMatch(res) /\ get_char(inp, L) # NUL
    THEN LET L1 == advance(inp, L)
             r1 == Append(res, get_char(inp, L1))
         IN  IF get_char(inp, L1) = "."
             THEN LET L2 == advance(inp, L1)
                  IN  number_loop(inp, L2, Append(r1, get_char(inp, L2)))
             ELSE number_loop(inp, L1, r1)
    ELSE [L |-> L, text |-> res]

DropLast(s) == SubSeq(s, 1, Len(s) - 1)

\* what next_token hands back: the lexer position, the token (type, text) or
\* a panic, and the tpos/trow/tcol snapshot of the call that built the token
Tok(L, T, type, text) ==
    [L |-> L, T |-> T, type |-> type, text |-> text, panic |-> FALSE]

Panic(L, T) ==
    [L |-> L, T |-> T, type |-> "Panic", text |-> <<>>, panic |-> TRUE]

EofToken(de) == IF de THEN "Discard" ELSE "EoF"

Punct(c) ==
    CASE c = "{" -> "OpenBrace"
      [] c = "}" -> "CloseBrace"
      [] c = "[" -> "OpenBracket"
      [] c = "]" -> "CloseBracket"
      [] c = "(" -> "OpenParen"
      [] c = ")" -> "CloseParen"
      [] c = ";" -> "Semicolon"
      [] c = "," -> "Comma"
      [] c = "=" -> "Equal"
      [] c = "." -> "Dot"
      [] c = "/" -> "Slash"

PunctChars == {"{", "}", "[", "]", "(", ")", ";", ",", "=", ".", "/"}

TRUE_TEXT == <<"t", "r", "u", "e">>
FALSE_TEXT == <<"f", "a", "l", "s", "e">>

\* the 't' and 'f' arms: a Boolean is returned without backup()
keyword_arm(inp, L, T, kw) ==
    LET r == collect_while(inp, L)
    IN  IF r.text = kw
        THEN Tok(r.L, T, "Boolean", r.text)
        ELSE Tok(backup(r.L), T, "Symbol", r.text)

number_arm(inp, L, T) ==
    LET r == number_loop(inp, L, <<get_char(inp, L)>>)
        popped == ~ (get_char(inp, r.L) \in Digit)
        text == IF popped THEN DropLast(r.text) ELSE r.text
        L1 == IF popped THEN backup(r.L) ELSE r.L
    IN  IF ParseF64Ok(text) THEN Tok(L1, T, "Number", text) ELSE Panic(L1, T)

string_arm(inp, L, T, q) ==
    LET r == collect_to(inp, L, q)
    IN  IF r.text[Len(r.text)] # q THEN Panic(r.L, T)
        ELSE Tok(r.L, T, "String", r.text)

symbol_arm(inp, L, T, de) ==
    LET r == collect_while(inp, L)
    IN  IF Len(r.text) = 0 /\ get_char(inp, r.L) # NUL THEN Panic(r.L, T)
        ELSE IF Len(r.text) = 0 THEN Tok(r.L, T, EofToken(de), <<>>)
        ELSE Tok(backup(r.L), T, "Symbol", r.text)

comment_arm(inp, L, T) ==
    LET L1 == advance_until(inp, L, "\n")
    IN  Tok(L1, T, "Discard", SubSeq(inp, L.pos + 1, L1.pos + 1))

\* Lexer::next_token; the result's L is the position after the final advance()
RECURSIVE next_token(_, _, _, _)
\* next_token emitting Whitespace also when discard_whitespace is set
next_token_keep_whitespace(inp, L, dw, de) ==
    LET T == [tpos |-> L.pos, trow |-> L.row, tcol |-> L.col]
        c == get_char(inp, L)
        r == CASE c = "#" -> comment_arm(inp, L, T)
               [] c = "'" -> string_arm(inp, L, T, "'")
               [] c = "\"" -> string_arm(inp, L, T, "\"")
               [] c = "t" -> keyword_arm(inp, L, T, TRUE_TEXT)
               [] c = "f" -> keyword_arm(inp, L, T, FALSE_TEXT)
               [] c \in Digit -> number_arm(inp, L, T)
               [] c \in PunctChars -> Tok(L, T, Punct(c), <<c>>)
               [] c = NUL -> Tok(L, T, EofToken(de), <<>>)
               [] IsWhitespace(c) /\ ~dw -> Tok(L, T, "Whitespace", <<c>>)
               [] IsWhitespace(c) /\ dw -> Tok(L, T, "Whitespace", <<c>>)
               [] OTHER -> symbol_arm(inp, L, T, de)
    IN  IF r.type = "Skip" THEN next_token(inp, advance(inp, L), dw, de)
        ELSE IF r.panic THEN r
        ELSE [r EXCEPT !.L = advance(inp, r.L)]

next_token(inp, L, dw, de) ==
    LET T == [tpos |-> L.pos, trow |-> L.row, tcol |-> L.col]
        c == get_char(inp, L)
        r == CASE c = "#" -> comment_arm(inp, L, T)
               [] c = "'" -> string_arm(inp, L, T, "'")
               [] c = "\"" -> string_arm(inp, L, T, "\"")
               [] c = "t" -> keyword_arm(inp, L, T, TRUE_TEXT)
               [] c = "f" -> keyword_arm(inp, L, T, FALSE_TEXT)
               [] c \in Digit -> number_arm(inp, L, T)
               [] c \in PunctChars -> Tok(L, T, Punct(c), <<c>>)
               [] c = NUL -> Tok(L, T, EofToken(de), <<>>)
               [] IsWhitespace(c) /\ ~dw -> Tok(L, T, "Whitespace", <<c>>)
               [] IsWhitespace(c) /\ dw -> Tok(L, T, "Skip", <<>>)
               [] OTHER -> symbol_arm(inp, L, T, de)
    IN  IF r.type = "Skip" THEN next_token(inp, advance(inp, L), dw, de)
        ELSE IF r.panic THEN r
        ELSE [r EXCEPT !.L = advance(inp, r.L)]

\* Lexer::tokenize_input from the lexer state L on: [panic, tokens], a token
\* being its kind and its lexeme
RECURSIVE tokenize_input(_, _, _, _, _)
tokenize_input(inp, L, dw, de, toks) ==
    IF L.pos > Len(inp) THEN [panic |-> FALSE, tokens |-> toks]
    ELSE LET r == next_token(inp, L, dw, de)
         IN  IF r.panic THEN [panic |-> TRUE, tokens |-> toks]
             ELSE tokenize_input(inp, r.L, dw, de,
                      IF r.type = "Discard" THEN toks
                      ELSE Append(toks, [type |-> r.type, text |-> r.text]))

-----------------------------------------------------------------------------
(***************************************************************************)
(* Expr (parser.rs:33-63), one record per variant, and Env                *)
(* (interpreter.rs:35-39).  Option<T> is a sequence of length 0 or 1.      *)
(***************************************************************************)
None == <<>>
Some(x) == <<x>>

Str(s) == [k |-> "String", v |-> s]
Num(n) == [k |-> "Number", v |-> n]
Bool(b) == [k |-> "Boolean", v |-> b]
Sym(s) == [k |-> "Symbol", v |-> s]
VarDecl(name, value) == [k |-> "VarDecl", name |-> name, value |-> value]
GitHubRemote(user, repo, branch) ==
    [k |-> "GitHubRemote", user |-> user, repo |-> repo, branch |-> branch]
List(items) == [k |-> "List", items |-> items]
ListRef(sym, index) == [k |-> "ListRef", sym |-> sym, index |-> index]
MapE(entries) == [k |-> "Map", entries |-> entries]
MapRef(sym, attr) == [k |-> "MapRef", sym |-> sym, attr |-> attr]
FnCall(name, args) == [k |-> "FnCall", name |-> name, args |-> args]
FnResult(function, args, E) ==
    [k |-> "FnResult", function |-> function, args |-> args, env |-> E]
Builtin(f) == [k |-> "Builtin", f |-> f]
Macro(f) == [k |-> "Macro", f |-> f]
CallableBuiltin(f) == [callable |-> "Builtin", f |-> f]

\* BTreeMap::new and BTreeMap::insert
EmptyMap == [x \in {} |-> x]
MapInsert(m, key, value) ==
    [x \in (DOMAIN m) \cup {key} |-> IF x = key THEN value ELSE m[x]]

\* Env::new
EnvNew == [variables |-> EmptyMap, parent |-> None]

\* Env::add_parent
add_parent(self, parent) == [self EXCEPT !.parent = Some(parent)]

\* a lookup's outcome: a panic, or Option<Expr>
Found(v) == [panic |-> FALSE, val |-> v]
LookupPanic == [panic |-> TRUE, val |-> None]

RECURSIVE find_variable(_, _)

\* get_variable consulting the parent chain before the current frame
get_variable_parent_first(E, name) ==
    IF E.parent # None /\ ~find_variable(E.parent[1], name).panic
    THEN find_variable(E.parent[1], name)
    ELSE IF name \in DOMAIN E.variables THEN Found(Some(E.variables[name]))
    ELSE Found(None)

\* Env::get_variable: the current frame, else the parent's find_variable
get_variable(E, name) ==
    IF name \in DOMAIN E.variables THEN Found(Some(E.variables[name]))
    ELSE IF E.parent # None THEN find_variable(E.parent[1], name)
    ELSE Found(None)

\* Env::find_variable
find_variable(E, name) ==
    LET g == get_variable(E, name)
    IN  IF g.panic \/ g.val = None THEN LookupPanic ELSE g

\* Env::find_variable_with_expr
find_variable_with_expr(E, expr) ==
    IF expr.k = "Symbol" THEN find_variable(E, expr.v) ELSE LookupPanic

\* add_variable whose MapRef arm binds a fresh map holding only the new entry
add_variable_fresh_map(E, name, value) ==
    CASE name.k = "Symbol" ->
            [panic |-> FALSE,
             env |-> [E EXCEPT !.variables = MapInsert(@, name.v, value)]]
      [] name.k = "MapRef" ->
            IF name.sym.k # "Symbol" THEN [panic |-> TRUE, env |-> E]
            ELSE LET g == get_variable(E, name.sym.v)
                 IN  IF g.panic \/ g.val = None THEN [panic |-> TRUE, env |-> E]
                     ELSE IF g.val[1].k # "Map" THEN [panic |-> TRUE, env |-> E]
                     ELSE [panic |-> FALSE,
                           env |-> [E EXCEPT !.variables =
                               MapInsert(@, name.sym.v,
                                   MapE(MapInsert(EmptyMap, name.attr, value)))]]
      [] OTHER -> [panic |-> TRUE, env |-> E]

\* Env::add_variable: [panic, env]
RECURSIVE add_variable(_, _, _)
add_variable(E, name, value) ==
    CASE name.k = "Symbol" ->
            [panic |-> FALSE,
             env |-> [E EXCEPT !.variables = MapInsert(@, name.v, value)]]
      [] name.k = "MapRef" ->
            IF name.sym.k # "Symbol" THEN [panic |-> TRUE, env |-> E]
            ELSE LET g == get_variable(E, name.sym.v)
                 IN  IF g.panic \/ g.val = None THEN [panic |-> TRUE, env |-> E]
                     ELSE IF g.val[1].k # "Map" THEN [panic |-> TRUE, env |-> E]
                     ELSE add_variable(E, Sym(name.sym.v),
                              MapE(MapInsert(g.val[1].entries, name.attr, value)))
      [] OTHER -> [panic |-> TRUE, env |-> E]

\* add_if_not_exists that binds whether or not the name is bound
add_if_not_exists_overwrite(E, name, value) ==
    [E EXCEPT !.variables = MapInsert(@, name, value)]

\* Env::add_if_not_exists: only the current frame is consulted
add_if_not_exists(E, name, value) ==
    IF name \notin DOMAIN E.variables
    THEN add_variable(E, Sym(name), value).env
    ELSE E

-----------------------------------------------------------------------------
(***************************************************************************)
(* eval (interpreter.rs:203-275) and the built-ins (builtins.rs).  A call  *)
(* hands back [panic, val, env, ran]: whether it panicked, the Option<Expr> *)
(* it returned, the environment it was given as it left it, and (history)  *)
(* the built-in bodies it entered, in order, each tagged "call" when       *)
(* entered for a FnCall under disable_lazy and "force" when entered for a  *)
(* FnResult.                                                               *)
(***************************************************************************)
Ret(val, E, rn) == [panic |-> FALSE, val |-> val, env |-> E, ran |-> rn]
Fatal(E, rn) == [panic |-> TRUE, val |-> None, env |-> E, ran |-> rn]

VPRN == "VOID_PACKAGES_REPO_NAME"

\* `as usize` on a list index
AsUsize(n) == IF n < 0 THEN 0 ELSE n

RECURSIVE eval(_, _, _)
RECURSIVE call(_, _, _)
RECURSIVE gh_resolve_expr(_, _)
RECURSIVE gh_resolve_symbol(_, _)
RECURSIVE print_resolve_expr(_, _)

\* github_repo::resolve_expr: [panic, val: Option<str>]; resolved is what
\* eval gave for a Symbol (the unwrap of it is the fatal case)
gh_resolve_expr(expr, E) ==
    CASE expr.k = "String" -> Found(Some(expr.v))
      [] expr.k = "Symbol" -> gh_resolve_symbol(eval(expr, E, FALSE), E)
      [] OTHER -> Found(None)

gh_resolve_symbol(e, E) ==
    IF e.panic THEN LookupPanic ELSE gh_resolve_expr(e.val[1], E)

\* github_repo, the GitHubRemote built from the three resolved arguments
gh_remote(user, repo, branch, E) ==
    IF user.panic \/ user.val = None THEN Fatal(E, <<>>)
    ELSE IF repo.panic \/ repo.val = None THEN Fatal(E, <<>>)
    ELSE IF branch.panic THEN Fatal(E, <<>>)
    ELSE Ret(Some(GitHubRemote(user.val[1], repo.val[1], branch.val)), E, <<>>)

\* builtins::github_repo
github_repo(args, E) ==
    IF Len(args) < 2 THEN Fatal(E, <<>>)
    ELSE gh_remote(gh_resolve_expr(args[1], E), gh_resolve_expr(args[2], E),
                   IF Len(args) >= 3 THEN gh_resolve_expr(args[3], E)
                   ELSE Found(None),
                   E)

\* builtins::voidpackages_repo
voidpackages_repo(args, E) ==
    IF Len(args) < 1 THEN Fatal(E, <<>>)
    ELSE LET E1 == add_if_not_exists(E, VPRN, Str("void-packages"))
         IN  github_repo(<<args[1], Sym(VPRN)>>, E1)

\* builtins::add, from argument i on
RECURSIVE add_loop(_, _, _, _, _)
add_loop(args, i, E, total, rn) ==
    IF i > Len(args) THEN Ret(Some(Num(total)), E, rn)
    ELSE LET e == eval(args[i], E, FALSE)
         IN  IF e.panic THEN Fatal(e.env, rn \o e.ran)
             ELSE IF e.val # None /\ e.val[1].k = "Number"
             THEN add_loop(args, i + 1, e.env, total + e.val[1].v, rn \o e.ran)
             ELSE Fatal(e.env, rn \o e.ran)

add(args, E) == add_loop(args, 1, E, 0, <<>>)

\* print::resolve_expr on the entries of a Map (the order of the entries
\* decides only the order of the history)
RECURSIVE print_entries(_, _, _, _)
print_entries(m, keys, E, rn) ==
    IF keys = {} THEN [panic |-> FALSE, ran |-> rn]
    ELSE LET key == CHOOSE x \in keys : TRUE
             a == print_resolve_expr(key, E)
             b == print_resolve_expr(m[key], E)
         IN  IF a.panic THEN [panic |-> TRUE, ran |-> rn \o a.ran]
             ELSE IF b.panic THEN [panic |-> TRUE, ran |-> rn \o a.ran \o b.ran]
             ELSE print_entries(m, keys \ {key}, E, rn \o a.ran \o b.ran)

\* print::resolve_expr: [panic, ran]; what is written to stdout is left out
print_resolve_expr(arg, E) ==
    CASE arg.k = "Symbol" ->
            LET f == find_variable(E, arg.v)
            IN  IF f.panic THEN [panic |-> TRUE, ran |-> <<>>]
                ELSE print_resolve_expr(f.val[1], E)
      [] arg.k \in {"String", "Boolean", "Number", "Path", "List",
                    "GitHubRemote", "FnCall", "Builtin"} ->
            [panic |-> FALSE, ran |-> <<>>]
      [] arg.k = "Map" -> print_entries(arg.entries, DOMAIN arg.entries, E, <<>>)
      [] arg.k = "ListRef" ->
            LET f == find_variable_with_expr(E, arg.sym)
            IN  IF f.panic \/ f.val[1].k # "List"
                   \/ AsUsize(arg.index) >= Len(f.val[1].items)
                THEN [panic |-> TRUE, ran |-> <<>>]
                ELSE print_resolve_expr(f.val[1].items[AsUsize(arg.index) + 1], E)
      [] arg.k = "MapRef" ->
            LET f == find_variable_with_expr(E, arg.sym)
            IN  IF f.panic \/ f.val[1].k # "Map"
                   \/ arg.attr \notin DOMAIN f.val[1].entries
                THEN [panic |-> TRUE, ran |-> <<>>]
                ELSE print_resolve_expr(f.val[1].entries[arg.attr], E)
      [] arg.k = "FnResult" ->
            IF arg.function.callable # "Builtin"
            THEN [panic |-> TRUE, ran |-> <<>>]
            ELSE LET r == call(arg.function.f, arg.args, arg.env)
                     rn == <<[f |-> arg.function.f, via |-> "force"]>> \o r.ran
                 IN  IF r.panic THEN [panic |-> TRUE, ran |-> rn]
                     ELSE IF r.val = None THEN [panic |-> FALSE, ran |-> rn]
                     ELSE LET p == print_resolve_expr(r.val[1], E)
                          IN  [panic |-> p.panic, ran |-> rn \o p.ran]
      [] OTHER -> [panic |-> TRUE, ran |-> <<>>]

\* builtins::print, from argument i on
RECURSIVE print_loop(_, _, _, _)
print_loop(args, i, E, rn) ==
    IF i > Len(args) THEN Ret(None, E, rn)
    ELSE LET p == print_resolve_expr(args[i], E)
         IN  IF p.panic THEN Fatal(E, rn \o p.ran)
             ELSE print_loop(args, i + 1, E, rn \o p.ran)

print(args, E) == print_loop(args, 1, E, <<>>)

\* f64 Display on a whole number: the decimal digits
DigitStr(d) ==
    CASE d = 0 -> "0" [] d = 1 -> "1" [] d = 2 -> "2" [] d = 3 -> "3"
      [] d = 4 -> "4" [] d = 5 -> "5" [] d = 6 -> "6" [] d = 7 -> "7"
      [] d = 8 -> "8" [] d = 9 -> "9"

RECURSIVE NatToString(_)
NatToString(n) ==
    IF n < 10 THEN DigitStr(n) ELSE NatToString(n \div 10) \o DigitStr(n % 10)

\* NumberExpr::to_string
NumberToString(e) ==
    LET whole == IF e.v < 0 THEN "-" \o NatToString(0 - e.v) ELSE NatToString(e.v)
    IN  IF "frac" \in DOMAIN e THEN whole \o "." \o NatToString(e.frac) ELSE whole

\* Expr::to_string: [panic, val].  The Path arm (path.to_str()) is not
\* modelled: no form of BuiltinSpec holds a Path, and IsAtom leaves Path out
to_string(e) ==
    CASE e.k \in {"String", "Symbol"} -> [panic |-> FALSE, val |-> e.v]
      [] e.k = "Number" -> [panic |-> FALSE, val |-> NumberToString(e)]
      [] e.k = "Boolean" ->
            [panic |-> FALSE, val |-> IF e.v THEN "true" ELSE "false"]
      [] OTHER -> [panic |-> TRUE, val |-> ""]

\* a String argument, or a Symbol bound to a String (one lookup), as join
\* and replace read their string arguments: [panic, val]
string_arg(arg, E) ==
    CASE arg.k = "String" -> [panic |-> FALSE, val |-> arg.v]
      [] arg.k = "Symbol" ->
            LET f == find_variable(E, arg.v)
            IN  IF ~f.panic /\ f.val[1].k = "String"
                THEN [panic |-> FALSE, val |-> f.val[1].v]
                ELSE [panic |-> TRUE, val |-> ""]
      [] OTHER -> [panic |-> TRUE, val |-> ""]

\* [String]::join on the items from i on
RECURSIVE join_strings(_, _, _)
\* join_strings leaving a separator after the last item
join_strings_trailing(items, joiner, i) ==
    IF i > Len(items) THEN ""
    ELSE items[i] \o joiner \o join_strings(items, joiner, i + 1)

join_strings(items, joiner, i) ==
    IF i > Len(items) THEN ""
    ELSE IF i = Len(items) THEN items[i]
    ELSE items[i] \o joiner \o join_strings(items, joiner, i + 1)

\* builtins::join
join(args, E) ==
    IF Len(args) < 2 THEN Fatal(E, <<>>)
    ELSE LET joiner == string_arg(args[1], E)
         IN  IF joiner.panic THEN Fatal(E, <<>>)
             ELSE IF args[2].k # "List" THEN Fatal(E, <<>>)
             ELSE LET strs == [i \in 1..Len(args[2].items) |->
                                  to_string(args[2].items[i])]
                  IN  IF \E i \in 1..Len(strs) : strs[i].panic
                      THEN Fatal(E, <<>>)
                      ELSE Ret(Some(Str(join_strings(
                                   [i \in 1..Len(strs) |-> strs[i].val],
                                   joiner.val, 1))), E, <<>>)

\* str::replace: every non-overlapping match of from, left to right; the
\* empty pattern matches before every character and at the end
RECURSIVE str_replace(_, _, _, _)
str_replace(s, from, to, i) ==
    IF i > Len(s) THEN (IF from = "" THEN to ELSE "")
    ELSE IF from = ""
    THEN to \o SubSeq(s, i, i) \o str_replace(s, from, to, i + 1)
    ELSE IF i + Len(from) - 1 <= Len(s) /\ SubSeq(s, i, i + Len(from) - 1) = from
    THEN to \o str_replace(s, from, to, i + Len(from))
    ELSE SubSeq(s, i, i) \o str_replace(s, from, to, i + 1)

\* builtins::replace
replace(args, E) ==
    IF Len(args) < 3 THEN Fatal(E, <<>>)
    ELSE LET original == string_arg(args[1], E)
             replacement == string_arg(args[2], E)
             string == string_arg(args[3], E)
         IN  IF original.panic \/ replacement.panic \/ string.panic
             THEN Fatal(E, <<>>)
             ELSE Ret(Some(Str(str_replace(string.val, original.val,
                                           replacement.val, 1))), E, <<>>)

\* builtins::todo_fn
todo_fn(args, E) == Fatal(E, <<>>)

\* a call through a Builtin function pointer
call(f, args, E) ==
    CASE f = "print" -> print(args, E)
      [] f = "add" -> add(args, E)
      [] f = "github_repo" -> github_repo(args, E)
      [] f = "voidpackages_repo" -> voidpackages_repo(args, E)
      [] f = "join" -> join(args, E)
      [] f = "replace" -> replace(args, E)
      [] OTHER -> todo_fn(args, E)

\* the FnResult arm running the body on the caller's environment
eval_fnresult_live_env(expr, E) ==
    IF expr.function.callable # "Builtin" THEN Fatal(E, <<>>)
    ELSE LET r == call(expr.function.f, expr.args, E)
         IN  [panic |-> r.panic, val |-> r.val, env |-> E,
              ran |-> <<[f |-> expr.function.f, via |-> "force"]>> \o r.ran]

\* the FnResult arm handing the body's environment back to the caller
eval_fnresult_write_back(expr, E) ==
    IF expr.function.callable # "Builtin" THEN Fatal(E, <<>>)
    ELSE LET r == call(expr.function.f, expr.args, expr.env)
         IN  [panic |-> r.panic, val |-> r.val, env |-> r.env,
              ran |-> <<[f |-> expr.function.f, via |-> "force"]>> \o r.ran]

\* eval, FnResult arm: the body runs on a clone of the captured environment;
\* E, the caller's environment, is not touched
eval_fnresult(expr, E) ==
    IF expr.function.callable # "Builtin" THEN Fatal(E, <<>>)
    ELSE LET r == call(expr.function.f, expr.args, expr.env)
         IN  [panic |-> r.panic, val |-> r.val, env |-> E,
              ran |-> <<[f |-> expr.function.f, via |-> "force"]>> \o r.ran]

\* the FnCall arm forcing the thunk whatever disable_lazy is
eval_fncall_builtin_always_eager(cb, args, E, dl) ==
    LET r == eval(FnResult(CallableBuiltin(cb), args, E), E, dl)
    IN  [r EXCEPT !.ran = <<[f |-> cb, via |-> "call"]>> \o Tail(r.ran)]

\* the FnCall arm returning the thunk whatever disable_lazy is
eval_fncall_builtin_always_lazy(cb, args, E, dl) ==
    Ret(Some(FnResult(CallableBuiltin(cb), args, E)), E, <<>>)

\* eval, FnCall arm, the callee being Builtin(cb)
eval_fncall_builtin(cb, args, E, dl) ==
    IF dl
    THEN LET r == eval(FnResult(CallableBuiltin(cb), args, E), E, dl)
         IN  [r EXCEPT !.ran = <<[f |-> cb, via |-> "call"]>> \o Tail(r.ran)]
    ELSE Ret(Some(FnResult(CallableBuiltin(cb), args, E)), E, <<>>)

\* eval, FnCall arm
eval_fncall(fncall, E, dl) ==
    LET function == find_variable(E, fncall.name)
    IN  IF function.panic THEN Fatal(E, <<>>)
        ELSE IF function.val[1].k = "Builtin"
        THEN eval_fncall_builtin(function.val[1].f, fncall.args, E, dl)
        ELSE Fatal(E, <<>>)

\* eval, VarDecl arm: the value is bound unevaluated and returned
eval_vardecl(name, value, E) ==
    LET a == add_variable(E, name, value)
    IN  IF a.panic THEN Fatal(E, <<>>) ELSE Ret(Some(value), a.env, <<>>)

\* eval, ListRef arm
eval_listref(sym, index, E) ==
    LET f == find_variable_with_expr(E, sym)
    IN  IF f.panic \/ f.val[1].k # "List" THEN Fatal(E, <<>>)
        ELSE IF AsUsize(index) >= Len(f.val[1].items) THEN Fatal(E, <<>>)
        ELSE Ret(Some(f.val[1].items[AsUsize(index) + 1]), E, <<>>)

\* eval, MapRef arm
eval_mapref(sym, attr, E) ==
    LET f == find_variable_with_expr(E, sym)
    IN  IF f.panic \/ f.val[1].k # "Map" THEN Fatal(E, <<>>)
        ELSE IF attr \notin DOMAIN f.val[1].entries THEN Fatal(E, <<>>)
        ELSE Ret(Some(f.val[1].entries[attr]), E, <<>>)

\* eval
eval(input_expr, E, dl) ==
    CASE input_expr.k = "VarDecl" ->
            eval_vardecl(input_expr.name, input_expr.value, E)
      [] input_expr.k = "Symbol" ->
            LET f == find_variable(E, input_expr.v)
            IN  IF f.panic THEN Fatal(E, <<>>) ELSE Ret(f.val, E, <<>>)
      [] input_expr.k = "ListRef" ->
            eval_listref(input_expr.sym, input_expr.index, E)
      [] input_expr.k = "MapRef" ->
            eval_mapref(input_expr.sym, input_expr.attr, E)
      [] input_expr.k = "FnResult" -> eval_fnresult(input_expr, E)
      [] input_expr.k = "FnCall" -> eval_fncall(input_expr, E, dl)
      [] OTHER -> Ret(Some(input_expr), E, <<>>)

-----------------------------------------------------------------------------
(***************************************************************************)
(* The parser (parser.rs:152-637) over a TokenList.  A token is            *)
(* [type, v]; the cursor p is Parser.pos and pm is Parser.parsing_map.  A  *)
(* parse function hands back [st, val, pos, pm, msg]: st is "ok", "panic"  *)
(* (msg tells which panic!) or "diverge" (a loop that never moves the      *)
(* cursor again), val what it returned, pos and pm the fields as it left   *)
(* them.  The subtractions on pos are never applied to 0: every one of     *)
(* them follows an advance.                                                *)
(***************************************************************************)
PTok(type, v) == [type |-> type, v |-> v]
PT(type) == PTok(type, "")

POk(val, p, pm) == [st |-> "ok", val |-> val, pos |-> p, pm |-> pm, msg |-> ""]
PPanic(p, pm, msg) ==
    [st |-> "panic", val |-> None, pos |-> p, pm |-> pm, msg |-> msg]
PDiverge(p, pm) ==
    [st |-> "diverge", val |-> None, pos |-> p, pm |-> pm, msg |-> ""]

\* Parser::get_input_len
get_input_len(toks) == Len(toks)

\* Parser::get_token
get_token(toks, p) == IF p >= get_input_len(toks) THEN PT("EoF") ELSE toks[p + 1]

\* Parser::lookahead_tokens
lookahead_tokens(toks, p, count) ==
    IF p + count >= get_input_len(toks) THEN PT("EoF") ELSE toks[p + count + 1]

\* Parser::peek_token
peek_token(toks, p) == lookahead_tokens(toks, p, 1)

\* Parser::look_behind
look_behind(toks, p, count) ==
    IF p - count <= 0 THEN PT("EoF") ELSE toks[p - count + 1]

\* Parser::peek_next_token_nonws
RECURSIVE peek_next_token_nonws(_, _, _)
peek_next_token_nonws(toks, p, count) ==
    LET token == lookahead_tokens(toks, p, count)
    IN  IF token.type = "Whitespace"
        THEN peek_next_token_nonws(toks, p, count + 1)
        ELSE token

\* Parser::peek_discard_whitespace
peek_discard_whitespace(toks, p) == peek_next_token_nonws(toks, p, 1)

\* Parser::advance
parser_advance(p) == p + 1

\* the while loops of advance_many and advance_skip_whitespace
RECURSIVE skip_whitespace(_, _)
skip_whitespace(toks, p) ==
    IF get_token(toks, p).type = "Whitespace"
    THEN skip_whitespace(toks, p + 1)
    ELSE p

\* Parser::advance_many
advance_many(toks, p, count) == skip_whitespace(toks, p + count)

\* Parser::advance_skip_whitespace
advance_skip_whitespace(toks, p) == skip_whitespace(toks, parser_advance(p))

\* the fractional part of a Number token, in tenths
Fract(token) == IF "frac" \in DOMAIN token THEN token.frac ELSE 0

\* NumberExpr { num: OrderedFloat::from(num) }
NumberExpr(token) ==
    IF Fract(token) = 0 THEN Num(token.v)
    ELSE [k |-> "Number", v |-> token.v, frac |-> token.frac]

Path(pieces) == [k |-> "Path", pieces |-> pieces]

\* parse_path's removal of a String token's first and last character
Unquote(s) == [unquoted |-> s]

\* Some(expr) of what an inner parse function returned
Wrap(r) == IF r.st = "ok" THEN [r EXCEPT !.val = Some(@)] ELSE r

\* Parser::parse_path, from cursor p on
RECURSIVE parse_path_loop(_, _, _, _)
parse_path_loop(toks, p, pm, path_str) ==
    IF p >= get_input_len(toks) THEN POk(Path(path_str), p - 1, pm)
    ELSE LET token == get_token(toks, p)
         IN  CASE token.type = "Discard" -> PPanic(p, pm, "Discard")
               [] token.type = "String" ->
                     parse_path_loop(toks, parser_advance(p), pm,
                                     Append(path_str, Unquote(token.v)))
               [] token.type = "Symbol" ->
                     parse_path_loop(toks, parser_advance(p), pm,
                                     Append(path_str, token.v))
               [] token.type = "Slash" ->
                     parse_path_loop(toks, parser_advance(p), pm,
                                     Append(path_str, "/"))
               [] token.type = "Dot" ->
                     parse_path_loop(toks, parser_advance(p), pm,
                                     Append(path_str, "."))
               [] OTHER -> POk(Path(path_str), p - 1, pm)

parse_path(toks, p, pm) == parse_path_loop(toks, p, pm, <<>>)

RECURSIVE parse_token(_, _, _)
RECURSIVE parse_symbol(_, _, _, _)

\* Parser::parse_list, the loop entered with the cursor at p
RECURSIVE parse_list_loop(_, _, _, _)
parse_list_loop(toks, p, pm, list) ==
    IF p >= get_input_len(toks) THEN POk(List(list), p - 1, pm)
    ELSE LET p1 == parser_advance(p)
             token == get_token(toks, p1)
         IN  CASE token.type = "CloseBracket" ->
                     POk(List(list), parser_advance(p1) - 1, pm)
               [] token.type \in {"Comma", "Whitespace"} ->
                     parse_list_loop(toks, p1, pm, list)
               [] OTHER ->
                     LET r == parse_token(toks, p1, pm)
                     IN  IF r.st # "ok" THEN r
                         ELSE IF r.val = None THEN PPanic(r.pos, r.pm, "unwrap")
                         ELSE parse_list_loop(toks, r.pos, r.pm,
                                              Append(list, r.val[1]))

parse_list(toks, p, pm) == parse_list_loop(toks, p, pm, <<>>)

\* Parser::parse_map, the loop entered with the cursor at p; the duplicate
\* test is map.contains_key(&expr.1), expr.1 being the entry's value
RECURSIVE parse_map_loop(_, _, _, _)
parse_map_loop(toks, p, pm, map) ==
    IF ~(p < get_input_len(toks) \/ get_token(toks, p).type # "EoF")
    THEN POk(MapE(map), p - 1, FALSE)
    ELSE LET p1 == parser_advance(p)
             token == get_token(toks, p1)
         IN  CASE token.type = "CloseBrace" ->
                     POk(MapE(map), parser_advance(p1) - 1, FALSE)
               [] token.type \in {"Semicolon", "Whitespace", "Comma"} ->
                     parse_map_loop(toks, p1, pm, map)
               [] token.type = "Symbol"
                    /\ peek_discard_whitespace(toks, p1).type = "Equal" ->
                     LET p3 == advance_skip_whitespace(toks,
                                   advance_skip_whitespace(toks, p1))
                         r == parse_token(toks, p3, pm)
                     IN  IF r.st # "ok" THEN r
                         ELSE IF r.val = None
                         THEN parse_map_loop(toks, r.pos, r.pm, map)
                         ELSE IF r.val[1] \in DOMAIN map
                         THEN PPanic(r.pos, r.pm,
                                     IF r.val[1].k = "Symbol"
                                     THEN "KeyExists" ELSE "panic")
                         ELSE parse_map_loop(toks, r.pos, r.pm,
                                  MapInsert(map, Sym(token.v), r.val[1]))
               [] token.type = "CloseBracket" ->
                     POk(MapE(map), p1 - 1, FALSE)
               [] OTHER -> PPanic(p1, pm, "UnknownKey")

parse_map(toks, p, pm) == parse_map_loop(toks, p, TRUE, EmptyMap)

\* Parser::parse_parens, the loop entered with the cursor at p: an
\* iteration that leaves the cursor where it was is repeated for ever
RECURSIVE parse_parens_loop(_, _, _, _)
parse_parens_loop(toks, p, pm, es) ==
    IF p >= get_input_len(toks) THEN POk(es, p, pm)
    ELSE IF get_token(toks, p).type = "CloseParen" THEN POk(es, p, pm)
    ELSE LET r == parse_token(toks, p, pm)
         IN  IF r.st # "ok" THEN r
             ELSE IF r.pos = p /\ r.pm = pm THEN PDiverge(p, pm)
             ELSE parse_parens_loop(toks, r.pos, r.pm,
                      IF r.val = None THEN es ELSE Append(es, r.val[1]))

parse_parens(toks, p, pm) == parse_parens_loop(toks, parser_advance(p), pm, <<>>)

\* Parser::parse_fncall, the loop entered with the cursor at p
RECURSIVE parse_fncall_loop(_, _, _, _, _)
parse_fncall_loop(toks, p, pm, name, args) ==
    IF p >= get_input_len(toks) THEN POk(FnCall(name, args), p, pm)
    ELSE LET p1 == parser_advance(p)
             token == get_token(toks, p1)
         IN  CASE token.type = "Discard" -> PPanic(p1, pm, "Discard")
               [] token.type \in {"Comma", "Semicolon", "EoF", "CloseParen",
                                  "CloseBrace", "CloseBracket"} ->
                     POk(FnCall(name, args), p1, pm)
               [] token.type = "Equal" ->
                     parse_fncall_loop(toks, p1, pm, name, Append(args, Sym("=")))
               [] token.type = "Whitespace" ->
                     parse_fncall_loop(toks, p1, pm, name, args)
               [] token.type = "OpenParen" ->
                     LET r == parse_parens(toks, p1, pm)
                     IN  IF r.st # "ok" THEN r
                         ELSE parse_fncall_loop(toks, r.pos, r.pm, name,
                                                args \o r.val)
               [] OTHER ->
                     LET r == parse_token(toks, p1, pm)
                     IN  IF r.st # "ok" THEN r
                         ELSE parse_fncall_loop(toks, r.pos, r.pm, name,
                                  IF r.val = None THEN args
                                  ELSE Append(args, r.val[1]))

parse_fncall(toks, p, pm, name) == parse_fncall_loop(toks, p, pm, name, <<>>)

\* parse_assignment with the two boxes of the VarDecl exchanged
parse_assignment_swapped(toks, p, pm, symbol) ==
    LET r == parse_token(toks, advance_skip_whitespace(toks, p), pm)
    IN  IF r.st # "ok" THEN r
        ELSE IF r.val = None THEN PPanic(r.pos, r.pm, "unwrap")
        ELSE POk(VarDecl(r.val[1], symbol), r.pos, r.pm)

\* Parser::parse_assignment
parse_assignment(toks, p, pm, symbol) ==
    LET r == parse_token(toks, advance_skip_whitespace(toks, p), pm)
    IN  IF r.st # "ok" THEN r
        ELSE IF r.val = None THEN PPanic(r.pos, r.pm, "unwrap")
        ELSE POk(VarDecl(symbol, r.val[1]), r.pos, r.pm)

\* Parser::parse_mapref
parse_mapref(toks, p, pm, map_symbol, index_symbol) ==
    POk(MapRef(Sym(map_symbol), Sym(index_symbol)), advance_many(toks, p, 2), pm)

\* parse_listref without the test of index.fract()
parse_listref_any_index(toks, p, pm, list_symbol, index) ==
    POk(ListRef(Sym(list_symbol), index.v), advance_many(toks, p, 3), pm)

\* Parser::parse_listref
parse_listref(toks, p, pm, list_symbol, index) ==
    IF Fract(index) # 0 THEN PPanic(p, pm, "NonIntegerIndex")
    ELSE POk(ListRef(Sym(list_symbol), index.v), advance_many(toks, p, 3), pm)

\* parse_symbol, the Dot arm, the cursor on the Dot
parse_symbol_dot(toks, p, pm, symbol) ==
    LET pk == peek_token(toks, p)
    IN  CASE pk.type = "Symbol" ->
                LET map_ref == parse_mapref(toks, p, pm, symbol, pk.v)
                IN  IF peek_next_token_nonws(toks, map_ref.pos, 0).type = "Equal"
                    THEN parse_assignment(toks, map_ref.pos, pm, map_ref.val)
                    ELSE map_ref
          [] pk.type = "Number" -> PPanic(p, pm, "MapIndexedByNumber")
          [] pk.type = "Slash" -> parse_fncall(toks, p - 1, pm, symbol)
          [] OTHER -> PPanic(p, pm, "MalformedMapRef")

\* parse_symbol, the OpenBracket arm, the cursor on the OpenBracket
parse_symbol_bracket(toks, p, pm, symbol) ==
    LET pk == peek_token(toks, p)
        la == lookahead_tokens(toks, p, 2)
    IN  CASE pk.type = "Number" /\ la.type = "CloseBracket" ->
                LET list_ref == parse_listref(toks, p, pm, symbol, pk)
                IN  IF list_ref.st # "ok" THEN list_ref
                    ELSE IF peek_next_token_nonws(toks, list_ref.pos, 1).type
                                = "Equal"
                    THEN parse_assignment(toks,
                             advance_skip_whitespace(toks, list_ref.pos), pm,
                             list_ref.val)
                    ELSE list_ref
          [] pk.type = "Number" /\ la.type # "CloseBracket" ->
                PPanic(p, pm, "MalformedList")
          [] pk.type = "CloseBracket" -> parse_fncall(toks, p - 1, pm, symbol)
          [] OTHER -> PPanic(p, pm, "MalformedList")

\* Parser::parse_symbol
parse_symbol(toks, p, pm, symbol) ==
    LET a == advance_skip_whitespace(toks, p)
        token == get_token(toks, a)
    IN  CASE token.type \in {"Semicolon", "Comma", "CloseBrace", "CloseBracket",
                             "EoF"} -> POk(Sym(symbol), a, pm)
          [] token.type = "Equal" /\ pm -> POk(Sym(symbol), a, pm)
          [] token.type = "Equal" /\ ~pm ->
                parse_assignment(toks, a, pm, Sym(symbol))
          [] token.type = "Dot" -> parse_symbol_dot(toks, a, pm, symbol)
          [] token.type = "OpenBracket"
               /\ look_behind(toks, a, 1).type # "Whitespace" ->
                parse_symbol_bracket(toks, a, pm, symbol)
          [] OTHER -> parse_fncall(toks, a - 1, pm, symbol)

\* Parser::parse_token: val is the Option<Expr> returned
parse_token(toks, p, pm) ==
    LET token == get_token(toks, p)
    IN  CASE token.type = "Discard" -> PPanic(p, pm, "Discard")
          [] token.type = "Boolean" -> POk(Some(Bool(token.v)), p, pm)
          [] token.type = "String" -> POk(Some(Str(token.v)), p, pm)
          [] token.type = "Number" -> POk(Some(NumberExpr(token)), p, pm)
          [] token.type = "Slash" -> Wrap(parse_path(toks, p, pm))
          [] token.type = "Dot" /\ peek_token(toks, p).type = "Slash" ->
                Wrap(parse_path(toks, p, pm))
          [] token.type = "OpenBracket" -> Wrap(parse_list(toks, p, pm))
          [] token.type = "OpenBrace" -> Wrap(parse_map(toks, p, pm))
          [] token.type = "OpenParen" ->
                LET r == parse_parens(toks, p, pm)
                IN  IF r.st # "ok" THEN r
                    ELSE [r EXCEPT !.val =
                             IF Len(r.val) >= 2 THEN Some(r.val[2]) ELSE None]
          [] token.type = "Symbol" -> Wrap(parse_symbol(toks, p, pm, token.v))
          [] token.type \in {"CloseBrace", "CloseParen", "CloseBracket",
                             "Semicolon", "EoF"} -> POk(None, p, pm)
          [] token.type = "Whitespace" ->
                parse_token(toks, advance_skip_whitespace(toks, p), pm)
          [] OTHER -> PPanic(p, pm, "UnknownToken")

-----------------------------------------------------------------------------
(***************************************************************************)
(* The inputs: concatenations of at most MaxPieces lexeme-sized pieces.    *)
(***************************************************************************)
MaxPieces == 3

Pieces ==
    { TRUE_TEXT, FALSE_TEXT, <<"a", "b">>, <<"i", "3">>, <<"g", "h", "-", "r">>,
      <<"7">>, <<"1", ".", "5">>, <<";">>, <<"=">>, <<".">>, <<" ">>, <<"\n">>,
      <<"'", "s", "'">>, <<"'">>, <<"#", "c">>, <<"-">> }

RECURSIVE InputsUpTo(_)
InputsUpTo(n) ==
    IF n = 0 THEN {<<>>}
    ELSE LET S == InputsUpTo(n - 1)
         IN  S \cup {s \o p : s \in S, p \in Pieces}

\* System::from_map has not been called
ConvIdle == output = <<>>

\* the interpreter holds no input and neither advance nor eval was called
CursorIdle ==
    /\ interp = [input |-> <<>>, pos |-> 0]
    /\ history = <<>>

\* the parser before any Parser exists
ParseIdle ==
    /\ parser = [input |-> <<>>, parsing_map |-> FALSE, pos |-> 0]
    /\ exprs = <<>>
    /\ parseState = "idle"
    /\ parseMsg = ""

\* the evaluator before any Interpreter exists
EvalIdle ==
    /\ env = EnvNew
    /\ disable_lazy = FALSE
    /\ result = [panic |-> FALSE, val |-> None]
    /\ ran = <<>>
    /\ lastForm = [k |-> "NoForm"]
    /\ envBefore = EnvNew
    /\ made = {}
    /\ nCalls = 0
    /\ evalState = "idle"

\* Lexer::new followed by the caller's choice of the two public flags
LexInit ==
    /\ ParseIdle
    /\ EvalIdle
    /\ ConvIdle
    /\ CursorIdle
    /\ input \in InputsUpTo(MaxPieces)
    /\ lex = [pos |-> 0, row |-> 1, col |-> 1]
    /\ tmark = [tpos |-> 1, trow |-> 1, tcol |-> 1]
    /\ discard_whitespace \in BOOLEAN
    /\ discard_eof \in BOOLEAN
    /\ tokens = <<>>
    /\ comments = <<>>
    /\ lexState = "run"

\* one iteration of the loop of tokenize_input_smart (tokenize_input is the
\* same loop without the row/col annotation)
LexStep ==
    /\ lexState = "run"
    /\ lex.pos <= Len(input)
    /\ LET r == next_token(input, lex, discard_whitespace, discard_eof)
       IN  /\ lex' = r.L
           /\ tmark' = r.T
           /\ IF r.panic
              THEN /\ lexState' = "panic"
                   /\ UNCHANGED <<tokens, comments>>
              ELSE /\ lexState' = IF r.L.pos <= Len(input) THEN "run" ELSE "done"
                   /\ IF r.type = "Discard"
                      THEN /\ comments' = Append(comments,
                                   [start |-> r.T.tpos, text |-> r.text])
                           /\ UNCHANGED tokens
                      ELSE /\ tokens' = Append(tokens,
                                   [type |-> r.type, text |-> r.text,
                                    start |-> r.T.tpos, row |-> r.T.trow,
                                    col |-> <<r.T.tcol, r.L.col>>])
                           /\ UNCHANGED comments
    /\ UNCHANGED <<input, discard_whitespace, discard_eof>>
    /\ UNCHANGED <<parseVars, evalVars, convVars, cursorVars>>

LexNext == LexStep

LexSpec == LexInit /\ [][LexNext]_vars

-----------------------------------------------------------------------------
(***************************************************************************)
(* The evaluator as a state machine: an Interpreter with the standard      *)
(* environment (plus the test built-in add), on which the host calls       *)
(* eval_input with forms of a bounded set, forces the thunk the last call  *)
(* returned, opens a child scope or installs a default binding.            *)
(***************************************************************************)
MaxCalls == 3
MaxDepth == 2

\* the lexer before any Lexer exists
LexIdle ==
    /\ input = <<>>
    /\ lex = [pos |-> 0, row |-> 1, col |-> 1]
    /\ tmark = [tpos |-> 1, trow |-> 1, tcol |-> 1]
    /\ discard_whitespace = FALSE
    /\ discard_eof = FALSE
    /\ tokens = <<>>
    /\ comments = <<>>
    /\ lexState = "idle"

Bind(E, name, value) == add_variable(E, Sym(name), value).env

\* Interpreter::create_standard_env
create_standard_env(E) ==
    LET e1 == Bind(E, "system", MapE(EmptyMap))
        e2 == Bind(e1, "print", Builtin("print"))
        e3 == Bind(e2, "gh-r", Builtin("github_repo"))
        e4 == Bind(e3, "vp-r", Builtin("voidpackages_repo"))
        e5 == Bind(e4, "github-repo", Builtin("github_repo"))
        e6 == Bind(e5, "voidpackages-repo", Builtin("voidpackages_repo"))
        e7 == Bind(e6, "home", Builtin("todo_fn"))
        e8 == Bind(e7, "replace", Builtin("todo_fn"))
        e9 == Bind(e8, "use_file", Builtin("todo_fn"))
    IN  Bind(e9, "join", Builtin("todo_fn"))

GhCall == FnCall("gh-r", <<Sym("user"), Str("void-packages")>>)
AaaMap == MapE(MapInsert(EmptyMap, Sym("aaa"), Num(123)))
SystemConfig == MapRef(Sym("system"), Sym("config"))

\* the forms handed to eval_input
Forms ==
    { Str("a"),
      VarDecl(Sym("user"), Str("sapein")),
      VarDecl(Sym("user"), Str("other")),
      VarDecl(Sym("x"), Sym("user")),
      VarDecl(Sym("x"), GhCall),
      VarDecl(Sym(VPRN), Str("mine")),
      VarDecl(SystemConfig, AaaMap),
      VarDecl(SystemConfig, Num(1)),
      VarDecl(MapRef(Sym("system"), Sym("extra")), Sym("config")),
      VarDecl(MapRef(Sym("user"), Sym("config")), Num(1)),
      VarDecl(ListRef(Sym("l"), 0), Num(1)),
      VarDecl(Sym("l"), List(<<Bool(TRUE), Num(10)>>)),
      Sym("user"),
      Sym("x"),
      Sym("system"),
      SystemConfig,
      ListRef(Sym("l"), 1),
      GhCall,
      FnCall("gh-r", <<Str("sapein"), Str("void-packages")>>),
      FnCall("vp-r", <<Sym("user")>>),
      FnCall("vp-r", <<Str("sapein")>>),
      FnCall("add", <<Num(1), Num(1)>>),
      FnCall("add", <<Num(1), FnCall("add", <<Num(1)>>)>>),
      FnCall("print", <<Sym("x"), Sym("system")>>),
      FnCall("home", <<>>),
      FnCall("user", <<>>),
      List(<<GhCall>>),
      MapE(MapInsert(EmptyMap, Sym("location"), GhCall)) }

\* the defaults a host installs with add_if_not_exists
Defaults == { <<VPRN, Str("void-packages")>>, <<"user", Str("nobody")>> }

RECURSIVE Depth(_)
Depth(E) == IF E.parent = None THEN 1 ELSE 1 + Depth(E.parent[1])

\* Interpreter::new_vector_ast(..).create_standard_env(), the test built-in
\* add bound as the tests bind it, disable_lazy as the caller sets it
EvalInit ==
    /\ LexIdle
    /\ ParseIdle
    /\ ConvIdle
    /\ CursorIdle
    /\ env = Bind(create_standard_env(EnvNew), "add", Builtin("add"))
    /\ disable_lazy \in BOOLEAN
    /\ result = [panic |-> FALSE, val |-> None]
    /\ ran = <<>>
    /\ lastForm = [k |-> "NoForm"]
    /\ envBefore = env
    /\ made = {}
    /\ nCalls = 0
    /\ evalState = "run"

\* the thunk a lazy FnCall returned, with the environment of the call site
\* and what the callee returns on that environment
NewThunks(form, E, r) ==
    IF form.k = "FnCall" /\ ~r.panic /\ r.val # None /\ r.val[1].k = "FnResult"
    THEN LET c == call(r.val[1].function.f, form.args, E)
         IN  {[thunk |-> r.val[1], site |-> E,
               forced |-> [panic |-> c.panic, val |-> c.val]]}
    ELSE {}

\* the state after eval(form, env, disable_lazy) returned r
Evaluated(form, r) ==
    /\ env' = r.env
    /\ result' = [panic |-> r.panic, val |-> r.val]
    /\ ran' = r.ran
    /\ lastForm' = form
    /\ envBefore' = env
    /\ made' = made \cup NewThunks(form, env, r)
    /\ nCalls' = nCalls + 1
    /\ evalState' = IF r.panic THEN "panic" ELSE "run"
    /\ UNCHANGED disable_lazy

\* Interpreter::eval_input(form)
Evaluate(form) == Evaluated(form, eval(form, env, disable_lazy))

EvalInput ==
    /\ evalState = "run"
    /\ nCalls < MaxCalls
    /\ \E form \in Forms : Evaluate(form)
    /\ UNCHANGED <<lexVars, parseVars, convVars, cursorVars>>

\* eval_input on the thunk the last call returned
Force ==
    /\ evalState = "run"
    /\ nCalls < MaxCalls
    /\ ~result.panic /\ result.val # None /\ result.val[1].k = "FnResult"
    /\ Evaluate(result.val[1])
    /\ UNCHANGED <<lexVars, parseVars, convVars, cursorVars>>

\* a child scope: Env::new().add_parent(&env)
AddParent ==
    /\ evalState = "run"
    /\ nCalls < MaxCalls
    /\ Depth(env) < MaxDepth
    /\ env' = add_parent(EnvNew, env)
    /\ lastForm' = [k |-> "AddParent"]
    /\ envBefore' = env
    /\ ran' = <<>>
    /\ nCalls' = nCalls + 1
    /\ UNCHANGED <<disable_lazy, result, made, evalState>>
    /\ UNCHANGED <<lexVars, parseVars, convVars, cursorVars>>

\* env.add_if_not_exists(name, value)
AddIfNotExists ==
    /\ evalState = "run"
    /\ nCalls < MaxCalls
    /\ \E d \in Defaults :
          /\ env' = add_if_not_exists(env, d[1], d[2])
          /\ lastForm' = [k |-> "AddIfNotExists", name |-> d[1], value |-> d[2]]
    /\ envBefore' = env
    /\ ran' = <<>>
    /\ nCalls' = nCalls + 1
    /\ UNCHANGED <<disable_lazy, result, made, evalState>>
    /\ UNCHANGED <<lexVars, parseVars, convVars, cursorVars>>

EvalNext == EvalInput \/ Force \/ AddParent \/ AddIfNotExists

EvalSpec == EvalInit /\ [][EvalNext]_vars

-----------------------------------------------------------------------------
(***************************************************************************)
(* Lexer claims.                                                           *)
(***************************************************************************)
\* the tokens / discarded comments whose lexeme holds the character at
\* 0-based position i
Covering(i) ==
    {<<"token", k>> : k \in {k \in 1..Len(tokens) :
          tokens[k].start <= i /\ i < tokens[k].start + Len(tokens[k].text)}}
    \cup
    {<<"comment", k>> : k \in {k \in 1..Len(comments) :
          comments[k].start <= i /\ i < comments[k].start + Len(comments[k].text)}}

\* C1: when tokenize_input returns with whitespace and EoF not discarded,
\* every input character belongs to the lexeme of exactly one emitted token
\* or to one discarded comment.
C1_EveryCharConsumedOnce ==
    (lexState = "done" /\ ~discard_whitespace /\ ~discard_eof)
        => \A i \in 0..(Len(input) - 1) : Cardinality(Covering(i)) = 1

\* C2: with discard_eof = false, when tokenize_input returns the token list
\* holds EoF exactly once, as its last token.
C2_EofOnceAndLast ==
    (lexState = "done" /\ ~discard_eof)
        => /\ Len(tokens) >= 1
           /\ tokens[Len(tokens)].type = "EoF"
           /\ Cardinality({k \in 1..Len(tokens) : tokens[k].type = "EoF"}) = 1

-----------------------------------------------------------------------------
(***************************************************************************)
(* BuiltinSpec: one call of gh-r, join or replace, on bounded arguments,   *)
(* in the environment create_standard_env installs or in the environment   *)
(* the tests build (the built-in bound by hand), with a few symbols bound. *)
(* In lazy mode the thunk the call returned is then forced.                *)
(***************************************************************************)
MaxArgs == 3
MaxItems == 3

\* the environment of the built-in tests: the built-ins bound by name
TestEnv ==
    Bind(Bind(Bind(create_standard_env(EnvNew),
        "add", Builtin("add")), "join", Builtin("join")),
        "replace", Builtin("replace"))

BindIf(E, name, value) == IF value = None THEN E ELSE Bind(E, name, value[1])

BuiltinEnvs ==
    { BindIf(Bind(Bind(base, "s2", Str("void-packages")), "u", u), "sep", sep) :
        base \in {create_standard_env(EnvNew), TestEnv},
        sep \in {None, Some(Str(",")), Some(Num(1))},
        u \in {Str("sapein"), Sym("s2")} }

RECURSIVE SeqsUpTo(_, _)
SeqsUpTo(S, n) ==
    IF n = 0 THEN {<<>>}
    ELSE LET T == SeqsUpTo(S, n - 1)
         IN  T \cup {Append(t, x) : t \in T, x \in S}

GhArgs == {Str("sapein"), Sym("u"), Sym("sep"), Num(1)}
JoinSeps == {Str(","), Str(""), Sym("sep"), Sym("u"), Num(1)}
JoinItems == {Str("a"), Str("b"), Num(1), MapE(EmptyMap)}

JoinExample == FnCall("join", <<Str(","), List(<<Str("a"), Str("b"), Num(1)>>)>>)
ReplaceExample == FnCall("replace", <<Str("."), Str(","), Str("a.b")>>)

BuiltinForms ==
    {FnCall("gh-r", args) : args \in SeqsUpTo(GhArgs, MaxArgs)}
    \cup {FnCall("join", <<sep, List(items)>>) :
             sep \in JoinSeps, items \in SeqsUpTo(JoinItems, MaxItems)}
    \cup {FnCall("join", <<Str(",")>>), FnCall("join", <<Str(","), Str("a")>>),
          FnCall("join", <<Str(","), Sym("u")>>)}
    \cup {FnCall("replace", <<original, replacement, string>>) :
             original \in {Str("."), Str(""), Str(".."), Sym("sep"), Bool(TRUE)},
             replacement \in {Str(","), Str(""), Num(1)},
             string \in {Str("a.b"), Str("a...b."), Str(""), Sym("u")}}
    \cup {FnCall("replace", <<Str("."), Str(",")>>)}

BuiltinInit ==
    /\ LexIdle
    /\ ParseIdle
    /\ ConvIdle
    /\ CursorIdle
    /\ env \in BuiltinEnvs
    /\ disable_lazy \in BOOLEAN
    /\ result = [panic |-> FALSE, val |-> None]
    /\ ran = <<>>
    /\ lastForm = [k |-> "NoForm"]
    /\ envBefore = env
    /\ made = {}
    /\ nCalls = 0
    /\ evalState = "run"

\* eval_input on one call of a built-in
CallBuiltin ==
    /\ evalState = "run"
    /\ nCalls = 0
    /\ \E form \in BuiltinForms : Evaluate(form)
    /\ UNCHANGED <<lexVars, parseVars, convVars, cursorVars>>

BuiltinNext == CallBuiltin \/ Force

BuiltinSpec == BuiltinInit /\ [][BuiltinNext]_vars

-----------------------------------------------------------------------------
(***************************************************************************)
(* ParseSpec: parse_input (parser.rs:291-304), one iteration of its loop   *)
(* per step, over bounded token lists.                                     *)
(***************************************************************************)
MaxParsePieces == 3
MaxEntries == 2

WS == PT("Whitespace")

ParsePieces ==
    { <<PTok("Symbol", "a")>>, <<PTok("Number", 1)>>, <<PTok("String", "'s'")>>,
      <<PTok("Boolean", TRUE)>>, <<WS>>, <<PT("Equal")>>, <<PT("Dot")>>,
      <<PT("Slash")>>, <<PT("Semicolon")>>, <<PT("Comma")>>,
      <<PT("OpenBracket")>>, <<PT("CloseBracket")>>, <<PT("OpenParen")>>,
      <<PT("CloseParen")>>, <<PT("OpenBrace")>>, <<PT("CloseBrace")>> }

RECURSIVE TokenListsUpTo(_)
TokenListsUpTo(n) ==
    IF n = 0 THEN {<<>>}
    ELSE LET S == TokenListsUpTo(n - 1)
         IN  S \cup {s \o q : s \in S, q \in ParsePieces}

\* the entries `key = value;` of the map literals, written with or without
\* whitespace
EntryKeys == {"a", "b"}
EntryValues ==
    { PTok("Number", 1), PTok("Number", 2), PTok("Symbol", "a"),
      PTok("Symbol", "b"), PTok("String", "'s'") }

Entry(key, value, ws) ==
    IF ws
    THEN <<PTok("Symbol", key), WS, PT("Equal"), WS, value, PT("Semicolon"), WS>>
    ELSE <<PTok("Symbol", key), PT("Equal"), value, PT("Semicolon")>>

RECURSIVE EntriesUpTo(_, _)
EntriesUpTo(n, ws) ==
    IF n = 0 THEN {<<>>}
    ELSE LET S == EntriesUpTo(n - 1, ws)
         IN  S \cup {s \o Entry(key, value, ws) :
                        s \in S, key \in EntryKeys, value \in EntryValues}

\* `{ key = value; ... }`
MapLiterals ==
    UNION { {(IF ws THEN <<PT("OpenBrace"), WS>> ELSE <<PT("OpenBrace")>>)
                \o es \o <<PT("CloseBrace")>> : es \in EntriesUpTo(MaxEntries, ws)}
            : ws \in BOOLEAN }

TokenLists == TokenListsUpTo(MaxParsePieces) \cup MapLiterals

\* Parser::new, on a token list with or without the lexer's closing EoF
ParseInit ==
    /\ \E toks \in TokenLists : \E eof \in BOOLEAN :
          parser = [input |-> IF eof THEN Append(toks, PT("EoF")) ELSE toks,
                    parsing_map |-> FALSE, pos |-> 0]
    /\ exprs = <<>>
    /\ parseState = "run"
    /\ parseMsg = ""
    /\ LexIdle
    /\ EvalIdle
    /\ ConvIdle
    /\ CursorIdle

\* one iteration of parse_input's loop, or its return.  An iteration that
\* pushes an expression and leaves the cursor and parsing_map as they were
\* is repeated for ever.
ParseStep ==
    /\ parseState = "run"
    /\ LET toks == parser.input
           p == parser.pos
       IN  IF ~(p <= get_input_len(toks) /\ get_token(toks, p).type # "EoF")
           THEN /\ parseState' = "done"
                /\ UNCHANGED <<parser, exprs, parseMsg>>
           ELSE LET r == parse_token(toks, p, parser.parsing_map)
                IN  /\ parseState' =
                          IF r.st # "ok" THEN r.st
                          ELSE IF r.val # None /\ r.pos = p
                                  /\ r.pm = parser.parsing_map
                          THEN "diverge" ELSE "run"
                    /\ parseMsg' = r.msg
                    /\ exprs' = IF r.st = "ok" /\ r.val # None
                                THEN Append(exprs, r.val[1]) ELSE exprs
                    /\ parser' = [parser EXCEPT
                          !.pos = IF r.st = "ok" /\ r.val = None
                                  THEN parser_advance(r.pos) ELSE r.pos,
                          !.parsing_map = r.pm]
    /\ UNCHANGED <<lexVars, evalVars, convVars, cursorVars>>

ParseNext == ParseStep

ParseSpec == ParseInit /\ [][ParseNext]_vars

\* the positions of the keys of the entries of a map literal: the Symbols
\* followed, after any whitespace, by `=`
KeyPositions(toks) ==
    {i \in 1..Len(toks) :
        /\ toks[i].type = "Symbol"
        /\ peek_discard_whitespace(toks, i - 1).type = "Equal"}

DuplicateKey(toks) ==
    \E i, j \in KeyPositions(toks) : i # j /\ toks[i].v = toks[j].v

IsMapLiteral(toks) ==
    \E m \in MapLiterals : toks = m \/ toks = Append(m, PT("EoF"))

\* C3: parse_input on a map literal `{ key = value; ... }` ends in the
\* "Key ... already exists" panic exactly when two entries have the same
\* Symbol key: a duplicate key is fatal, and pairwise distinct keys are
\* never rejected as a duplicate, whatever the values are.
C3_DuplicateKeyIsFatal ==
    (parseState \in {"done", "panic", "diverge"} /\ IsMapLiteral(parser.input))
    => ((parseState = "panic" /\ parseMsg = "KeyExists")
            <=> DuplicateKey(parser.input))

-----------------------------------------------------------------------------
(***************************************************************************)
(* Evaluator claims.                                                       *)
(***************************************************************************)
\* the last step was a call of eval (eval_input on a form or on a thunk)
EvalStepDone == lastForm.k \notin {"NoForm", "AddParent", "AddIfNotExists"}

Outcome(r) == [panic |-> r.panic, val |-> r.val]

\* the frames of an environment, the current one first
RECURSIVE Frames(_)
Frames(E) ==
    <<E.variables>> \o (IF E.parent = None THEN <<>> ELSE Frames(E.parent[1]))

\* the binding of n in the nearest frame that binds it
Nearest(E, n) ==
    LET fs == Frames(E)
        idx == {i \in 1..Len(fs) : n \in DOMAIN fs[i]}
    IN  IF idx = {} THEN LookupPanic
        ELSE Found(Some(fs[CHOOSE i \in idx : \A j \in idx : i <= j][n]))

\* the number of FnCall nodes in an expression
RECURSIVE CountFnCalls(_)
RECURSIVE CountInSeq(_)
RECURSIVE CountInMap(_, _)
CountInSeq(xs) ==
    IF xs = <<>> THEN 0 ELSE CountFnCalls(Head(xs)) + CountInSeq(Tail(xs))
CountInMap(m, keys) ==
    IF keys = {} THEN 0
    ELSE LET key == CHOOSE x \in keys : TRUE
         IN  CountFnCalls(key) + CountFnCalls(m[key]) + CountInMap(m, keys \ {key})
CountFnCalls(e) ==
    CASE e.k = "FnCall" -> 1 + CountInSeq(e.args)
      [] e.k = "VarDecl" -> CountFnCalls(e.name) + CountFnCalls(e.value)
      [] e.k = "List" -> CountInSeq(e.items)
      [] e.k = "Map" -> CountInMap(e.entries, DOMAIN e.entries)
      [] OTHER -> 0

\* the bodies the last call entered for a FnCall / in all
CallsRun == Cardinality({i \in 1..Len(ran) : ran[i].via = "call"})

\* C4: after VarDecl(MapRef(Symbol m, key), value) with m resolving to a Map,
\* m is bound in the current frame to that map with key -> value inserted or
\* overwritten, the other entries, the other variables and the parents are
\* unchanged, and value is returned; system.config = { aaa = 123 } on the
\* empty system map leaves system = { config: { aaa: 123 } }.
C4_MapRefAssignment ==
    (/\ lastForm.k = "VarDecl"
     /\ lastForm.name.k = "MapRef"
     /\ lastForm.name.sym.k = "Symbol"
     /\ ~find_variable(envBefore, lastForm.name.sym.v).panic
     /\ find_variable(envBefore, lastForm.name.sym.v).val[1].k = "Map")
    => LET m == lastForm.name.sym.v
           key == lastForm.name.attr
           old == find_variable(envBefore, m).val[1].entries
       IN  /\ ~result.panic
           /\ result.val = Some(lastForm.value)
           /\ m \in DOMAIN env.variables
           /\ env.variables[m].k = "Map"
           /\ DOMAIN env.variables[m].entries = (DOMAIN old) \cup {key}
           /\ env.variables[m].entries[key] = lastForm.value
           /\ \A k2 \in (DOMAIN old) \ {key} :
                 env.variables[m].entries[k2] = old[k2]
           /\ DOMAIN env.variables = (DOMAIN envBefore.variables) \cup {m}
           /\ \A n \in (DOMAIN envBefore.variables) \ {m} :
                 env.variables[n] = envBefore.variables[n]
           /\ env.parent = envBefore.parent
           /\ (lastForm = VarDecl(SystemConfig, AaaMap) /\ old = EmptyMap)
                 => find_variable(env, "system").val
                      = Some(MapE(MapInsert(EmptyMap, Sym("config"), AaaMap)))

\* C4 witness: system.config was assigned in a map that held other entries
C4_Witness ==
    /\ lastForm = VarDecl(SystemConfig, AaaMap)
    /\ ~result.panic
    /\ find_variable(envBefore, "system").val[1].entries # EmptyMap
    /\ Cardinality(DOMAIN env.variables["system"].entries) >= 2

\* C5: forcing a thunk a lazy FnCall produced gives, in every later state of
\* the live environment, what the callee returns on the bindings of the call
\* site; the thunk holds the call site's environment.
C5_ThunkSnapshotIsolation ==
    \A m \in made :
        /\ m.thunk.env = m.site
        /\ Outcome(eval(m.thunk, env, disable_lazy)) = m.forced

\* C5 witness: a thunk over `user` exists and `user` was rebound since
C5_Witness ==
    \E m \in made :
        /\ ~m.forced.panic
        /\ Sym("user") \in {m.thunk.args[i] : i \in 1..Len(m.thunk.args)}
        /\ ~find_variable(env, "user").panic
        /\ find_variable(env, "user") # find_variable(m.site, "user")

\* C6: in lazy mode a call of eval on a form that contains FnCall nodes (and
\* is not itself a thunk being forced) enters no built-in body, and a FnCall
\* whose name is bound to a Builtin returns the FnResult of that callable,
\* the unevaluated arguments and the current environment.
C6_LazyRunsNoBody ==
    (~disable_lazy /\ EvalStepDone /\ lastForm.k # "FnResult")
    => /\ CountFnCalls(lastForm) > 0 => ran = <<>>
       /\ (/\ lastForm.k = "FnCall"
           /\ ~find_variable(envBefore, lastForm.name).panic
           /\ find_variable(envBefore, lastForm.name).val[1].k = "Builtin")
          => /\ ~result.panic
             /\ result.val = Some(FnResult(
                    CallableBuiltin(find_variable(envBefore, lastForm.name).val[1].f),
                    lastForm.args, envBefore))
             /\ env = envBefore

\* C6 witness: a lazy FnCall returned a thunk
C6_Witness ==
    /\ ~disable_lazy
    /\ lastForm = GhCall
    /\ ~result.panic
    /\ result.val[1].k = "FnResult"
    /\ ran = <<>>

Names == {"system", "user", "x", "l", VPRN, "gh-r", "add", "config", "nope"}

\* C8: find_variable returns the binding of the nearest frame that binds the
\* name and is fatal when none does; eval and add_if_not_exists leave the
\* parent chain as it was, and an assignment through a MapRef whose map is
\* bound only in a parent binds the updated map in the current frame.
C8_EnvironmentScoping ==
    /\ \A n \in Names : find_variable(env, n) = Nearest(env, n)
    /\ (EvalStepDone \/ lastForm.k = "AddIfNotExists")
          => env.parent = envBefore.parent
    /\ lastForm.k = "AddParent" => env.parent = Some(envBefore)
    /\ (/\ lastForm.k = "VarDecl"
        /\ lastForm.name.k = "MapRef"
        /\ ~result.panic
        /\ lastForm.name.sym.v \notin DOMAIN envBefore.variables)
       => /\ lastForm.name.sym.v \in DOMAIN env.variables
          /\ lastForm.name.attr \in
                DOMAIN env.variables[lastForm.name.sym.v].entries

\* C8 witness: system.config was assigned in a child scope: the parent still
\* holds the old map, the current frame the updated one
C8_Witness ==
    /\ lastForm = VarDecl(SystemConfig, AaaMap)
    /\ ~result.panic
    /\ envBefore.parent # None
    /\ "system" \notin DOMAIN envBefore.variables
    /\ "system" \in DOMAIN env.variables
    /\ env.parent[1].variables["system"] = MapE(EmptyMap)

\* a call of vp-r / voidpackages-repo has been evaluated by the last step
\* (eagerly, or by forcing its thunk) and returned
VprDone ==
    /\ ~result.panic
    /\ \/ /\ disable_lazy
          /\ lastForm.k = "FnCall"
          /\ lastForm.name \in {"vp-r", "voidpackages-repo"}
       \/ /\ lastForm.k = "FnResult"
          /\ lastForm.function.f = "voidpackages_repo"

\* the environment that call captured
VprSite == IF lastForm.k = "FnResult" THEN lastForm.env ELSE envBefore

\* C9 (as claimed): after the call, in an environment that did not bind
\* VOID_PACKAGES_REPO_NAME, the environment binds it to "void-packages".
C9_VprBindsRepoName ==
    (VprDone /\ find_variable(envBefore, VPRN).panic)
    => find_variable(env, VPRN) = Found(Some(Str("void-packages")))

\* C9 (amended): the call leaves the environment it was evaluated in as it
\* was; the insertion is made in the private copy the body runs on, in its
\* current frame, only when that frame does not bind the name.
C9_VprBindsRepoNameInCopy ==
    VprDone
    => LET c == voidpackages_repo(lastForm.args, VprSite)
       IN  /\ env = envBefore
           /\ VPRN \notin DOMAIN VprSite.variables
                 => /\ c.env = [VprSite EXCEPT !.variables =
                               MapInsert(@, VPRN, Str("void-packages"))]
                    /\ find_variable(c.env, VPRN) = Found(Some(Str("void-packages")))
           /\ VPRN \in DOMAIN VprSite.variables => c.env = VprSite

\* C9 witness: vp-r returned in an environment without the name
C9_Witness ==
    /\ VprDone
    /\ find_variable(envBefore, VPRN).panic
    /\ find_variable(env, VPRN).panic

get_map_value(e, key) ==
    IF e.k = "Map" /\ key \in DOMAIN e.entries THEN Some(e.entries[key])
    ELSE None

\* Expr::extract_str: [panic, val]
extract_str(e) ==
    IF e.k \in {"String", "Symbol"} THEN Found(e.v) ELSE [panic |-> TRUE, val |-> ""]

Service(name, enabled, downed) ==
    [name |-> name, enabled |-> enabled, downed |-> downed]

GithubRemote(user, repository_name, branch_name) ==
    [remote |-> "GithubRemote", user |-> user,
     repository_name |-> repository_name, branch_name |-> branch_name]

VoidRepo == [remote |-> "VoidRepo"]

Remote(r) == [source |-> "Remote", remote |-> r]

PackageRepository(name, location, allow_restricted) ==
    [name |-> name, location |-> location, allow_restricted |-> allow_restricted]

HomeDirectoryPath(location, subdirs) ==
    [location |-> location, subdirs |-> subdirs]

Package(config, repository) == [config |-> config, repository |-> repository]

User(username, homedir, dotfiles, packages) ==
    [username |-> username, homedir |-> homedir, dotfiles |-> dotfiles,
     packages |-> packages]

System(services, repositories, users, system_packages) ==
    [services |-> services, repositories |-> repositories, users |-> users,
     system_packages |-> system_packages]

ConvPanic == [panic |-> TRUE, val |-> None]

\* `match opt { Some(Expr::Boolean(b)) => *b, _ => default }`
boolean_or(opt, default) ==
    IF opt # None /\ opt[1].k = "Boolean" THEN opt[1].v ELSE default

\* Service::from_map with `enabled` defaulting to false
Service_from_map_enabled_off(map) ==
    IF get_map_value(map, Sym("name")) # None
       /\ get_map_value(map, Sym("name"))[1].k = "String"
    THEN Found(<<get_map_value(map, Sym("name"))[1].v,
                 Service(get_map_value(map, Sym("name"))[1].v,
                         boolean_or(get_map_value(map, Sym("enabled")), FALSE),
                         boolean_or(get_map_value(map, Sym("downed")), FALSE))>>)
    ELSE ConvPanic

\* Service::from_map: the pair (name, Service)
Service_from_map(map) ==
    IF get_map_value(map, Sym("name")) # None
       /\ get_map_value(map, Sym("name"))[1].k = "String"
    THEN Found(<<get_map_value(map, Sym("name"))[1].v,
                 Service(get_map_value(map, Sym("name"))[1].v,
                         boolean_or(get_map_value(map, Sym("enabled")), TRUE),
                         boolean_or(get_map_value(map, Sym("downed")), FALSE))>>)
    ELSE ConvPanic

\* a Vec of conversions collected: fatal when one of them was
collect(rs) ==
    IF \E i \in 1..Len(rs) : rs[i].panic THEN ConvPanic
    ELSE Found([i \in 1..Len(rs) |-> rs[i].val])

\* Service::from_list: the Vec of pairs
Service_from_list(list) ==
    IF list.k # "List" THEN ConvPanic
    ELSE collect([i \in 1..Len(list.items) |-> Service_from_map(list.items[i])])

\* the branch_name of from_map, the `branch` key tried before the remote's
\* own branch
branch_name_key_first(branch, map) ==
    IF get_map_value(map, Sym("branch")) # None
       /\ get_map_value(map, Sym("branch"))[1].k = "String"
    THEN Some(get_map_value(map, Sym("branch"))[1].v)
    ELSE branch

\* PackageRepository::from_map, the branch_name of the GithubRemote
branch_name(branch, map) ==
    IF branch # None THEN branch
    ELSE IF get_map_value(map, Sym("branch")) # None
            /\ get_map_value(map, Sym("branch"))[1].k = "String"
    THEN Some(get_map_value(map, Sym("branch"))[1].v)
    ELSE None

\* PackageRepository::from_map, the match on `location`: [panic, val: Source]
repository_location(location, map) ==
    IF location # None /\ location[1].k = "GitHubRemote"
    THEN Found(Remote(GithubRemote(location[1].user, location[1].repo,
                                   branch_name(location[1].branch, map))))
    ELSE ConvPanic

\* PackageRepository::from_map
PackageRepository_from_map(map, name) ==
    IF name.k # "Symbol" THEN ConvPanic
    ELSE IF repository_location(get_map_value(map, Sym("location")), map).panic
    THEN ConvPanic
    ELSE Found(PackageRepository(
             Some(name.v),
             repository_location(get_map_value(map, Sym("location")), map).val,
             boolean_or(get_map_value(map, Sym("allow_restricted")), FALSE)))

\* the keys of a BTreeMap in the order iter() visits them (an order on the
\* keys; the conversions do not depend on which)
RECURSIVE key_seq(_)
key_seq(keys) ==
    IF keys = {} THEN <<>>
    ELSE LET key == CHOOSE x \in keys : TRUE
         IN  <<key>> \o key_seq(keys \ {key})

\* the pair (extract_str(key), converted) of one entry, converted being
\* what from_map returned for the entry
entry_pair(key, converted) ==
    IF extract_str(key).panic \/ converted.panic THEN ConvPanic
    ELSE Found(<<extract_str(key).val, converted.val>>)

\* `map.iter().map(|(n, m)| (n.clone().extract_str(), Self::from_map(m, n)))`
\* of PackageRepository::from_big_map
repository_pairs(entries, keys) ==
    [i \in 1..Len(keys) |->
        entry_pair(keys[i], PackageRepository_from_map(entries[keys[i]], keys[i]))]

\* PackageRepository::from_big_map: the Vec of pairs
PackageRepository_from_big_map(map) ==
    IF map.k # "Map" THEN ConvPanic
    ELSE collect(repository_pairs(map.entries, key_seq(DOMAIN map.entries)))

\* User::from_map, the location of the home directory
homedir_location(map, username) ==
    IF Sym("location") \in DOMAIN map.entries
    THEN extract_str(map.entries[Sym("location")])
    ELSE Found("/home/" \o username)

\* User::from_map, the subdirs of the home directory
homedir_subdirs(map) ==
    IF Sym("subdirs") \notin DOMAIN map.entries THEN Found(<<>>)
    ELSE IF map.entries[Sym("subdirs")].k # "List" THEN ConvPanic
    ELSE IF \E i \in 1..Len(map.entries[Sym("subdirs")].items) :
               map.entries[Sym("subdirs")].items[i].k # "Path"
    THEN ConvPanic
    ELSE Found([i \in 1..Len(map.entries[Sym("subdirs")].items) |->
                   map.entries[Sym("subdirs")].items[i].pieces])

\* User::from_map, the match on `homedir`
user_homedir(homedir, username) ==
    IF homedir = None THEN Found(HomeDirectoryPath("/home/" \o username, <<>>))
    ELSE IF homedir[1].k # "Map" THEN ConvPanic
    ELSE IF homedir_location(homedir[1], username).panic
            \/ homedir_subdirs(homedir[1]).panic
    THEN ConvPanic
    ELSE Found(HomeDirectoryPath(homedir_location(homedir[1], username).val,
                                 homedir_subdirs(homedir[1]).val))

\* User::from_map, the match on `dotfiles`: [panic, val: Option<Source>]
user_dotfiles(dotfiles) ==
    IF dotfiles = None THEN Found(None)
    ELSE IF dotfiles[1].k = "GitHubRemote"
    THEN Found(Some(Remote(GithubRemote(dotfiles[1].user, dotfiles[1].repo,
                                        dotfiles[1].branch))))
    ELSE ConvPanic

\* User::from_map, the match on `packages`
user_packages(packages) ==
    IF packages = None THEN Found(EmptyMap)
    ELSE IF packages[1].k # "List" THEN ConvPanic
    ELSE IF \E i \in 1..Len(packages[1].items) :
               packages[1].items[i].k # "Symbol"
    THEN ConvPanic
    ELSE Found([n \in {packages[1].items[i].v : i \in 1..Len(packages[1].items)}
                   |-> Package(None, Remote(VoidRepo))])

\* User::from_map
User_from_map(map, name) ==
    IF name.k # "Symbol" THEN ConvPanic
    ELSE IF user_homedir(get_map_value(map, Sym("homedir")), name.v).panic
            \/ user_dotfiles(get_map_value(map, Sym("dotfiles"))).panic
            \/ user_packages(get_map_value(map, Sym("packages"))).panic
    THEN ConvPanic
    ELSE Found(User(Some(name.v),
                    user_homedir(get_map_value(map, Sym("homedir")), name.v).val,
                    user_dotfiles(get_map_value(map, Sym("dotfiles"))).val,
                    user_packages(get_map_value(map, Sym("packages"))).val))

\* `map.iter().map(|(n, m)| (n.clone().extract_str(), Self::from_map(m, n)))`
\* of User::from_big_map
user_pairs(entries, keys) ==
    [i \in 1..Len(keys) |->
        entry_pair(keys[i], User_from_map(entries[keys[i]], keys[i]))]

\* User::from_big_map: the Vec of pairs
User_from_big_map(map) ==
    IF map.k # "Map" THEN ConvPanic
    ELSE collect(user_pairs(map.entries, key_seq(DOMAIN map.entries)))

\* HashMap::from_iter on the first n pairs of a Vec: a later pair replaces an
\* earlier one with the same key
RECURSIVE from_iter(_, _)
from_iter(pairs, n) ==
    IF n = 0 THEN EmptyMap
    ELSE MapInsert(from_iter(pairs, n - 1), pairs[n][1], pairs[n][2])

\* `get_map_value(services).into_iter().flat_map(Service::from_list)`:
\* nothing for None, the Vec of Service::from_list for Some
services_flat_map(opt) ==
    IF opt = None THEN Found(<<>>) ELSE Service_from_list(opt[1])

\* `get_map_value(vp_repos).into_iter().flat_map(PackageRepository::from_big_map)`
repositories_flat_map(opt) ==
    IF opt = None THEN Found(<<>>) ELSE PackageRepository_from_big_map(opt[1])

\* System::from_map, the struct built from the two collected Vecs
system_of(services, repositories) ==
    IF services.panic \/ repositories.panic THEN ConvPanic
    ELSE Found(System(from_iter(services.val, Len(services.val)),
                      from_iter(repositories.val, Len(repositories.val)),
                      EmptyMap, ""))

\* System::from_map
System_from_map(map) ==
    system_of(services_flat_map(get_map_value(map, Sym("services"))),
              repositories_flat_map(get_map_value(map, Sym("vp_repos"))))

\* ---------------------------------------------------------------------
\* ConvertSpec: `system.config = <config>` is evaluated in the standard
\* environment and the stored system.config is handed to System::from_map
\* (lib.rs:88-124), for bounded configuration values.
\* ---------------------------------------------------------------------
MaxServices == 2
MaxRepos == 2

\* the entry key = v[1] when v is Some, no entry when v is None
Opt(key, v) == IF v = None THEN {} ELSE {<<Sym(key), v[1]>>}

\* the BTreeMap holding the pairs of ps (their keys are distinct)
MapOfPairs(ps) ==
    [key \in {p[1] : p \in ps} |-> (CHOOSE p \in ps : p[1] = key)[2]]

ServiceMap(name, enabled, downed) ==
    MapE(MapOfPairs(Opt("name", name) \cup Opt("enabled", enabled)
                    \cup Opt("downed", downed)))

Sshd == ServiceMap(Some(Str("sshd")), None, None)

\* the items of a `services` list: well-shaped service maps (one repeating a
\* name) and ill-shaped ones
ServiceItems ==
    { Sshd,
      ServiceMap(Some(Str("test")), Some(Bool(FALSE)), None),
      ServiceMap(Some(Str("test2")), Some(Bool(TRUE)), Some(Bool(TRUE))),
      ServiceMap(Some(Str("sshd")), None, Some(Bool(TRUE))),
      ServiceMap(None, Some(Bool(FALSE)), None),
      ServiceMap(Some(Num(1)), None, None),
      ServiceMap(Some(Str("sshd")), Some(Num(1)), None),
      ServiceMap(Some(Str("sshd")), None, Some(Str("yes"))),
      Num(1) }

ServiceOptions ==
    {None, Some(Num(1))}
    \cup {Some(List(l)) : l \in SeqsUpTo(ServiceItems, MaxServices)}

RepoMap(location, branch, allow_restricted) ==
    MapE(MapOfPairs(Opt("location", location) \cup Opt("branch", branch)
                    \cup Opt("allow_restricted", allow_restricted)))

\* gh-r 'sapein' 'void-packages' as the declaration stores it, and as the
\* thunk a lazy evaluation of it makes
GhStored == FnCall("gh-r", <<Str("sapein"), Str("void-packages")>>)
GhThunk ==
    FnResult(CallableBuiltin("github_repo"),
             <<Str("sapein"), Str("void-packages")>>, create_standard_env(EnvNew))

\* the repository map of the `personal` entry, with the given location
PersonalRepo(location) ==
    RepoMap(Some(location), Some(Str("personal")), Some(Bool(TRUE)))

RepoValues ==
    { RepoMap(Some(location), branch, allow_restricted) :
        location \in {GitHubRemote("sapein", "void-packages", None),
                      GitHubRemote("void", "void-packages", Some("main"))},
        branch \in {None, Some(Str("personal")), Some(Num(1))},
        allow_restricted \in {None, Some(Bool(TRUE)), Some(Num(1))} }
    \cup { PersonalRepo(location) : location \in {GhStored, GhThunk, Str("url"), Num(1)} }
    \cup { RepoMap(None, Some(Str("personal")), Some(Bool(TRUE))), Num(1) }

RepoNames == <<"personal", "test", "extra">>

RepoKeys == {Sym(RepoNames[i]) : i \in 1..MaxRepos}

RepoOptions ==
    {None, Some(Num(1)),
     Some(MapE(MapOfPairs({<<Str("personal"),
                             PersonalRepo(GitHubRemote("sapein", "void-packages", None))>>})))}
    \cup {Some(MapE(m)) : m \in UNION {[D -> RepoValues] : D \in SUBSET RepoKeys}}

UserMap(homedir, dotfiles, packages) ==
    MapE(MapOfPairs(Opt("homedir", homedir) \cup Opt("dotfiles", dotfiles)
                    \cup Opt("packages", packages)))

Library == Path(<<".", "/", "library">>)

UserValues ==
    { UserMap(None, None, None),
      UserMap(Some(MapE(MapOfPairs(Opt("subdirs", Some(List(<<Library>>)))))),
              Some(GitHubRemote("sapein", "dotfiles", None)),
              Some(List(<<Sym("dmenu"), Sym("firefox")>>))),
      UserMap(Some(MapE(MapOfPairs(Opt("location", Some(Str("/srv/sapeint")))))),
              None, None),
      UserMap(None, Some(Num(1)), None),
      UserMap(None, None, Some(List(<<Num(1)>>))) }

UserOptions ==
    {None, Some(Num(1))}
    \cup {Some(MapE(m)) :
             m \in UNION {[D -> UserValues] : D \in SUBSET {Sym("sapeint"), Sym("guest")}}}

ConfigMap(services, vp_repos, users) ==
    MapE(MapOfPairs(Opt("services", services) \cup Opt("vp_repos", vp_repos)
                    \cup Opt("users", users)))

PersonalRepos(location) ==
    MapE(MapOfPairs({<<Sym("personal"), PersonalRepo(location)>>}))

\* the configuration of lib.rs test_interpreter_to_system, with the given
\* location of the `personal` repository
Scenario7(location) ==
    ConfigMap(Some(List(<<Sshd>>)), Some(PersonalRepos(location)), None)

Configs ==
    { ConfigMap(services, vp_repos, None) :
        services \in ServiceOptions,
        vp_repos \in {None, Some(Num(1)),
                      Some(PersonalRepos(GitHubRemote("sapein", "void-packages", None)))} }
    \cup { ConfigMap(services, vp_repos, None) :
             services \in {None, Some(List(<<Sshd>>))}, vp_repos \in RepoOptions }
    \cup { ConfigMap(Some(List(<<Sshd>>)), None, users) : users \in UserOptions }
    \cup { Num(1), Str("x"), List(<<>>) }

ConvertInit ==
    /\ LexIdle
    /\ ParseIdle
    /\ ConvIdle
    /\ CursorIdle
    /\ env = create_standard_env(EnvNew)
    /\ disable_lazy \in BOOLEAN
    /\ result = [panic |-> FALSE, val |-> None]
    /\ ran = <<>>
    /\ lastForm = [k |-> "NoForm"]
    /\ envBefore = env
    /\ made = {}
    /\ nCalls = 0
    /\ evalState = "run"

\* interpreter.eval() on the one form `system.config = config`
Declare ==
    /\ evalState = "run"
    /\ nCalls = 0
    /\ \E config \in Configs : Evaluate(VarDecl(SystemConfig, config))
    /\ UNCHANGED <<lexVars, parseVars, convVars, cursorVars>>

\* System::from_map on a found variable's `config` entry
convert_config(system) ==
    IF system.panic \/ get_map_value(system.val[1], Sym("config")) = None
    THEN ConvPanic
    ELSE System_from_map(get_map_value(system.val[1], Sym("config"))[1])

\* env.find_variable("system").get_map_value("config").unwrap() handed to
\* System::from_map
Convert ==
    /\ evalState = "run"
    /\ nCalls = 1
    /\ output = None
    /\ output' = Some(convert_config(find_variable(env, "system")))
    /\ UNCHANGED <<lexVars, parseVars, evalVars, cursorVars>>

ConvertNext == Declare \/ Convert

ConvertSpec == ConvertInit /\ [][ConvertNext]_vars

\* ---------------------------------------------------------------------
\* Claims about the built-ins (BuiltinSpec)
\* ---------------------------------------------------------------------

StandardEnv == create_standard_env(EnvNew)

\* the environment the last call started from holds every binding that
\* create_standard_env installs
InStandardEnv ==
    \A n \in DOMAIN StandardEnv.variables :
        /\ n \in DOMAIN envBefore.variables
        /\ envBefore.variables[n] = StandardEnv.variables[n]

\* the names an environment binds to the unimplemented stub
Stubs(E) == {n \in DOMAIN E.variables : E.variables[n] = Builtin("todo_fn")}

\* C11: in the environment installed by create_standard_env, evaluated in
\* eager mode, join ',' ['a','b',1] returns the String "a,b,1" and
\* replace '.' ',' 'a.b' returns the String "a,b", and the only names bound to
\* the unimplemented stub are home and use_file.
C11_StandardEnvJoinReplace ==
    (InStandardEnv /\ disable_lazy /\ nCalls = 1)
    => /\ (lastForm = JoinExample
             => Outcome(result) = Found(Some(Str("a,b,1"))))
       /\ (lastForm = ReplaceExample
             => Outcome(result) = Found(Some(Str("a,b"))))
       /\ Stubs(envBefore) = {"home", "use_file"}

\* the body of built-in f was entered by the last step: an eager FnCall of a
\* name bound to Builtin(f), or a forced FnResult of f
BodyRan(f) ==
    \/ /\ lastForm.k = "FnCall" /\ disable_lazy
       /\ find_variable(envBefore, lastForm.name) = Found(Some(Builtin(f)))
    \/ /\ lastForm.k = "FnResult"
       /\ lastForm.function = CallableBuiltin(f)

\* the environment that body ran on
BodyEnv == IF lastForm.k = "FnResult" THEN lastForm.env ELSE envBefore

\* what an argument is, following symbol-to-symbol bindings: the String it
\* resolves to, "unbound" or "nonstring"
RECURSIVE Resolution(_, _)
Resolution(e, E) ==
    CASE e.k = "String" -> [is |-> "string", v |-> e.v]
      [] e.k = "Symbol" ->
            IF Nearest(E, e.v).panic THEN [is |-> "unbound", v |-> ""]
            ELSE Resolution(Nearest(E, e.v).val[1], E)
      [] OTHER -> [is |-> "nonstring", v |-> ""]

\* C12: gh-r with 2 or 3 arguments that are or resolve to Strings returns
\* GitHubRemote{user = arg1, repo = arg2, branch = arg3 or None}; with fewer
\* than 2 arguments, or with a user, repo or branch argument that is or
\* resolves to a non-string value, the call is fatal.
C12_GhrContract ==
    BodyRan("github_repo")
    => LET args == lastForm.args
           res == [i \in 1..Len(args) |-> Resolution(args[i], BodyEnv)]
       IN  /\ (Len(args) \in {2, 3} /\ \A i \in 1..Len(args) : res[i].is = "string")
                => Outcome(result) =
                     Found(Some(GitHubRemote(res[1].v, res[2].v,
                         IF Len(args) = 3 THEN Some(res[3].v) ELSE None)))
           /\ (Len(args) < 2 \/ \E i \in 1..Len(args) : i <= 3 /\ res[i].is = "nonstring")
                => result.panic

\* the strings of xs with sep between each two consecutive ones, built from
\* the left
RECURSIVE Joined(_, _, _)
Joined(xs, sep, n) ==
    IF n = 0 THEN ""
    ELSE IF n = 1 THEN xs[1]
    ELSE Joined(xs, sep, n - 1) \o sep \o xs[n]

IsAtom(e) == e.k \in {"String", "Number", "Boolean", "Symbol"}

\* the first argument of join is string-ish: a String or a Symbol bound to one
JoinSep(arg, E) ==
    CASE arg.k = "String" -> Some(arg.v)
      [] arg.k = "Symbol" ->
            IF ~Nearest(E, arg.v).panic /\ Nearest(E, arg.v).val[1].k = "String"
            THEN Some(Nearest(E, arg.v).val[1].v)
            ELSE None
      [] OTHER -> None

Converted == output # None /\ lastForm.k = "VarDecl"

\* the value under key of a Map expression is present and of kind kind
HasKind(m, key, kind) ==
    get_map_value(m, Sym(key)) # None /\ get_map_value(m, Sym(key))[1].k = kind

Absent(m, key) == get_map_value(m, Sym(key)) = None

\* C14: System::from_map on a configuration map with a `users` key mapping
\* usernames to user-maps returns a System whose users mapping has exactly
\* one User per username, built as User::from_map builds it (homedir
\* defaulting to /home/<username> with empty subdirs).
C14_UsersConverted ==
    (/\ Converted
     /\ ~output[1].panic
     /\ HasKind(lastForm.value, "users", "Map")
     /\ ~User_from_big_map(get_map_value(lastForm.value, Sym("users"))[1]).panic)
    => LET users == get_map_value(lastForm.value, Sym("users"))[1].entries
           out == output[1].val.users
       IN  /\ DOMAIN out = {key.v : key \in DOMAIN users}
           /\ \A key \in DOMAIN users :
                 /\ out[key.v] = User_from_map(users[key], key).val
                 /\ Absent(users[key], "homedir")
                      => out[key.v].homedir
                           = HomeDirectoryPath("/home/" \o key.v, <<>>)

\* a vp_repos entry as the claim describes its conversion
RepoAsClaimed(repo, name, m) ==
    LET location == get_map_value(m, Sym("location"))[1]
    IN  /\ repo.name = Some(name)
        /\ repo.location.source = "Remote"
        /\ repo.location.remote.remote = "GithubRemote"
        /\ repo.location.remote.user = location.user
        /\ repo.location.remote.repository_name = location.repo
        /\ repo.location.remote.branch_name =
              (IF location.branch # None THEN location.branch
               ELSE IF HasKind(m, "branch", "String")
               THEN Some(get_map_value(m, Sym("branch"))[1].v)
               ELSE None)
        /\ HasKind(m, "allow_restricted", "Boolean")
             => repo.allow_restricted
                  = get_map_value(m, Sym("allow_restricted"))[1].v
        /\ Absent(m, "allow_restricted") => repo.allow_restricted = FALSE

\* every entry of a vp_repos map has a Symbol key and a GitHubRemote location
ReposWellShaped(repos) ==
    \A key \in DOMAIN repos.entries :
        key.k = "Symbol" /\ HasKind(repos.entries[key], "location", "GitHubRemote")

\* C15: converting vp_repos, every entry name -> m whose location is a
\* GitHubRemote{user, repo, branch} is mapped to PackageRepository{name =
\* Some(name), location = Remote(GithubRemote{user, repository_name = repo,
\* branch_name}), allow_restricted}: branch_name is the remote's own branch
\* when it has one, otherwise the String under m's branch key, otherwise
\* None; allow_restricted is the Boolean under that key, or false when absent.
C15_ReposConverted ==
    (Converted /\ HasKind(lastForm.value, "vp_repos", "Map"))
    => LET repos == get_map_value(lastForm.value, Sym("vp_repos"))[1]
       IN  /\ (ReposWellShaped(repos) /\ Absent(lastForm.value, "services"))
                => ~output[1].panic
           /\ ~output[1].panic
                => /\ DOMAIN output[1].val.repositories
                        = {key.v : key \in DOMAIN repos.entries}
                   /\ \A key \in DOMAIN repos.entries :
                         HasKind(repos.entries[key], "location", "GitHubRemote")
                         => RepoAsClaimed(output[1].val.repositories[key.v],
                                          key.v, repos.entries[key])

\* C15 witness: two repositories were converted, one whose remote has its own
\* branch next to a `branch` key, one taking the branch from the key
C15_Witness ==
    /\ Converted
    /\ ~output[1].panic
    /\ HasKind(lastForm.value, "vp_repos", "Map")
    /\ DOMAIN output[1].val.repositories = {"personal", "test"}
    /\ get_map_value(lastForm.value, Sym("vp_repos"))[1].entries[Sym("test")]
         = RepoMap(Some(GitHubRemote("void", "void-packages", Some("main"))),
                   Some(Str("personal")), None)
    /\ output[1].val.repositories["test"].location.remote.branch_name
         = Some("main")
    /\ output[1].val.repositories["personal"]
         = PackageRepository(Some("personal"),
               Remote(GithubRemote("sapein", "void-packages", Some("personal"))),
               TRUE)

\* every item of a services list is a map with a String name
ServicesWellShaped(services) ==
    \A i \in 1..Len(services.items) : HasKind(services.items[i], "name", "String")

\* a Service as the claim describes the conversion of the service map m
ServiceAsClaimed(service, m) ==
    /\ service.name = get_map_value(m, Sym("name"))[1].v
    /\ HasKind(m, "enabled", "Boolean")
         => service.enabled = get_map_value(m, Sym("enabled"))[1].v
    /\ Absent(m, "enabled") => service.enabled = TRUE
    /\ HasKind(m, "downed", "Boolean")
         => service.downed = get_map_value(m, Sym("downed"))[1].v
    /\ Absent(m, "downed") => service.downed = FALSE

\* C16: converting services, a list of service maps yields a mapping with
\* one entry per service name, each Service carrying that name, enabled = the
\* Boolean under `enabled` or true when absent, downed = the Boolean under
\* `downed` or false when absent; a configuration map without a `services`
\* key yields an empty services mapping.
C16_ServicesConverted ==
    (Converted /\ lastForm.value.k = "Map")
    => /\ (Absent(lastForm.value, "services") /\ ~output[1].panic)
            => output[1].val.services = EmptyMap
       /\ HasKind(lastForm.value, "services", "List")
            => LET services == get_map_value(lastForm.value, Sym("services"))[1]
               IN  /\ (ServicesWellShaped(services)
                         /\ Absent(lastForm.value, "vp_repos"))
                        => ~output[1].panic
                   /\ ~output[1].panic
                        => /\ DOMAIN output[1].val.services
                                = {get_map_value(services.items[i], Sym("name"))[1].v :
                                      i \in 1..Len(services.items)}
                           /\ \A n \in DOMAIN output[1].val.services :
                                 \E i \in 1..Len(services.items) :
                                     /\ get_map_value(services.items[i], Sym("name"))[1].v = n
                                     /\ ServiceAsClaimed(output[1].val.services[n],
                                                         services.items[i])

\* C16 witness: two services were converted, one from a map with the name
\* only, one from a map setting enabled to false
C16_Witness ==
    /\ Converted
    /\ ~output[1].panic
    /\ HasKind(lastForm.value, "services", "List")
    /\ output[1].val.services =
          MapInsert(MapInsert(EmptyMap, "sshd", Service("sshd", TRUE, FALSE)),
                    "test", Service("test", FALSE, FALSE))

\* the System of lib.rs test_interpreter_to_system
System7 ==
    System(MapInsert(EmptyMap, "sshd", Service("sshd", TRUE, FALSE)),
           MapInsert(EmptyMap, "personal",
               PackageRepository(Some("personal"),
                   Remote(GithubRemote("sapein", "void-packages", Some("personal"))),
                   TRUE)),
           EmptyMap, "")

\* C17: when the location of the `personal` entry is what a
\* gh-r 'sapein' 'void-packages' call holds after the evaluation of the
\* system.config declaration (the stored call or a FnResult thunk),
\* System::from_map reduces it and returns the System of scenario 7: the
\* repository Remote(GithubRemote{sapein, "void-packages", Some("personal")})
\* with allow_restricted = true and the service sshd, enabled and not downed.
C17_ConverterReducesThunks ==
    (Converted /\ lastForm.value \in {Scenario7(GhStored), Scenario7(GhThunk)})
    => output[1] = Found(System7)

\* a service item the claim calls ill-shaped
ServiceWrong(item) ==
    \/ ~HasKind(item, "name", "String")
    \/ ~Absent(item, "enabled") /\ ~HasKind(item, "enabled", "Boolean")
    \/ ~Absent(item, "downed") /\ ~HasKind(item, "downed", "Boolean")

\* a repository map the claim calls ill-shaped
RepoWrong(m) ==
    \/ Absent(m, "location")
    \/ get_map_value(m, Sym("location"))[1].k
          \notin {"GitHubRemote", "String", "FnCall", "FnResult"}
    \/ ~Absent(m, "allow_restricted") /\ ~HasKind(m, "allow_restricted", "Boolean")
    \/ ~Absent(m, "branch") /\ ~HasKind(m, "branch", "String")

\* a configuration value the claim calls wrong-shaped
WrongShape(config) ==
    \/ config.k # "Map"
    \/ /\ config.k = "Map"
       /\ \/ /\ ~Absent(config, "services")
             /\ \/ ~HasKind(config, "services", "List")
                \/ \E i \in 1..Len(get_map_value(config, Sym("services"))[1].items) :
                      ServiceWrong(get_map_value(config, Sym("services"))[1].items[i])
          \/ /\ ~Absent(config, "vp_repos")
             /\ \/ ~HasKind(config, "vp_repos", "Map")
                \/ \E key \in DOMAIN get_map_value(config, Sym("vp_repos"))[1].entries :
                      RepoWrong(get_map_value(config, Sym("vp_repos"))[1].entries[key])

\* C18: System::from_map returns no System when the configuration value is
\* not a Map, when services is not a list of maps with a String name, when
\* enabled, downed or allow_restricted is present but not a Boolean, when
\* branch is present but not a String, when vp_repos is not a map, or when a
\* repository's location is missing or of another kind.
C18_WrongShapeIsFatal ==
    (Converted /\ WrongShape(lastForm.value)) => output[1].panic

\* ---------------------------------------------------------------------
\* Claims about whitespace and identifiers (LexSpec)
\* ---------------------------------------------------------------------

\* the kinds and lexemes of a list of smart tokens
Plain(toks) ==
    [k \in 1..Len(toks) |-> [type |-> toks[k].type, text |-> toks[k].text]]

NonWhitespace(toks) == SelectSeq(toks, LAMBDA t : t.type # "Whitespace")

\* the tokens of the same input lexed from the start with discard_whitespace
\* off
KeepingWhitespace ==
    tokenize_input(input, [pos |-> 0, row |-> 1, col |-> 1], FALSE, discard_eof, <<>>)

\* discard_whitespace = true: no Whitespace token, and the other tokens are
\* those of the run that keeps whitespace, in the same order
DiscardDropsOnlyWhitespace ==
    (lexState = "done" /\ discard_whitespace)
    => /\ \A k \in 1..Len(tokens) : tokens[k].type # "Whitespace"
       /\ ~KeepingWhitespace.panic
       /\ Plain(tokens) = NonWhitespace(KeepingWhitespace.tokens)

\* C19 (as stated): with discard_whitespace = false every maximal run of
\* whitespace characters produces exactly one Whitespace token, so no two
\* Whitespace tokens are adjacent; with discard_whitespace = true there is no
\* Whitespace token and all other tokens are the same in the same order.
C19_WhitespaceRunIsOneToken ==
    /\ (lexState = "done" /\ ~discard_whitespace)
         => \A k \in 1..(Len(tokens) - 1) :
               ~(tokens[k].type = "Whitespace" /\ tokens[k + 1].type = "Whitespace")
    /\ DiscardDropsOnlyWhitespace

\* the lexer stands at a whitespace character and keeps whitespace
AtWhitespace ==
    /\ lexState = "run"
    /\ ~discard_whitespace
    /\ lex.pos < Len(input)
    /\ IsWhitespace(input[lex.pos + 1])

\* the step emitted one Whitespace token for the single character at
\* position lex.pos and moved one character on
WhitespaceTokenForOneCharacter ==
    /\ Len(tokens') = Len(tokens) + 1
    /\ SubSeq(tokens', 1, Len(tokens)) = tokens
    /\ tokens'[Len(tokens')].type = "Whitespace"
    /\ tokens'[Len(tokens')].text = <<input[lex.pos + 1]>>
    /\ tokens'[Len(tokens')].start = lex.pos
    /\ lex'.pos = lex.pos + 1

\* C19 (amended): with discard_whitespace = false every call of next_token
\* that starts at a whitespace character emits one Whitespace token for that
\* single character, so a run of n whitespace characters gives n adjacent
\* Whitespace tokens; with discard_whitespace = true there is no Whitespace
\* token and all other tokens are the same in the same order.
C19_WhitespaceTokenPerCharacter ==
    /\ [][AtWhitespace => WhitespaceTokenForOneCharacter]_vars
    /\ []DiscardDropsOnlyWhitespace

\* C19 witness: a run of two whitespace characters was lexed into two
\* adjacent Whitespace tokens
C19_Witness ==
    /\ lexState = "done"
    /\ ~discard_whitespace
    /\ \E k \in 1..(Len(tokens) - 1) :
          /\ tokens[k].type = "Whitespace" /\ tokens[k + 1].type = "Whitespace"
          /\ tokens[k + 1].start = tokens[k].start + 1

\* the characters an identifier is made of
IdentChars == Letter \cup Digit \cup {"-"}

\* the length of the longest prefix of s, from n characters on, made of
\* identifier characters
RECURSIVE IdentPrefixLen(_, _)
IdentPrefixLen(s, n) ==
    IF n < Len(s) /\ s[n + 1] \in IdentChars THEN IdentPrefixLen(s, n + 1) ELSE n

\* letter or underscore first, then letters, digits, underscores and
\* hyphens, not ending in a hyphen, and not true / false
IsIdentifier(s) ==
    /\ Len(s) >= 1
    /\ s[1] \in Letter
    /\ s[Len(s)] # "-"
    /\ s # TRUE_TEXT
    /\ s # FALSE_TEXT

LeadingIdentifier == SubSeq(input, 1, IdentPrefixLen(input, 0))

\* the character behind the leading identifier, NUL at the end of the input
Follower ==
    IF Len(LeadingIdentifier) < Len(input)
    THEN input[Len(LeadingIdentifier) + 1] ELSE NUL

\* C20: an identifier at the start of the input, followed by whitespace,
\* punctuation or the end of the input, is lexed as exactly one Symbol token
\* carrying the whole identifier text (i3 and gh-test also as the last
\* lexeme of the input).
C20_IdentifierIsOneSymbol ==
    (/\ lexState \in {"done", "panic"}
     /\ IsIdentifier(LeadingIdentifier)
     /\ Follower = NUL \/ IsWhitespace(Follower) \/ Follower \in PunctChars)
    => /\ Len(tokens) >= 1
       /\ tokens[1].type = "Symbol"
       /\ tokens[1].text = LeadingIdentifier

-----------------------------------------------------------------------------
(***************************************************************************)
(* GrammarSpec: parse_input (parser.rs:291-304) over token lists written   *)
(* after the grammar: refs, assignments to refs, list and map literals     *)
(* with every kind of element, nested map literals.                        *)
(***************************************************************************)
MaxWs == 2

\* n Whitespace tokens
RECURSIVE Ws(_)
Ws(n) == IF n = 0 THEN <<>> ELSE <<WS>> \o Ws(n - 1)

WsRuns == {Ws(n) : n \in 0..MaxWs}

One == PTok("Number", 1)
Two == PTok("Number", 2)
Fractional == [type |-> "Number", v |-> 1, frac |-> 5]
SymTok(name) == PTok("Symbol", name)

\* the forms of an expression, by kind
AtomValues == {<<One>>, <<PTok("String", "'s'")>>, <<PTok("Boolean", TRUE)>>}
SymbolValues == {<<SymTok("b")>>}
PathValues == {<<PT("Dot"), PT("Slash"), SymTok("b")>>}
ListValues == {<<PT("OpenBracket"), PT("CloseBracket")>>,
               <<PT("OpenBracket"), One, PT("CloseBracket")>>}
MapValues == {<<PT("OpenBrace"), PT("CloseBrace")>>,
              <<PT("OpenBrace"), SymTok("k"), PT("Equal"), One, PT("Semicolon"),
                PT("CloseBrace")>>}
CallValues == {<<SymTok("f"), WS, One>>}
ParenValues == {<<PT("OpenParen"), SymTok("f"), WS, PTok("String", "'s'"),
                  PT("CloseParen")>>}
RefValues == {<<SymTok("a"), PT("Dot"), SymTok("b")>>,
              <<SymTok("c"), PT("OpenBracket"), One, PT("CloseBracket")>>}

Values ==
    AtomValues \cup SymbolValues \cup PathValues \cup ListValues \cup MapValues
        \cup CallValues \cup ParenValues \cup RefValues

\* what may stand behind an expression at the top level
Tails == {<<>>, <<PT("Semicolon")>>, <<WS, SymTok("x")>>}

\* `a[n]` and `a [n]`, alone, as a list element and as the value of an entry
Indexes == {PTok("Number", 0), One, Fractional}

ListRefForms ==
    {<<SymTok("a")>> \o w \o <<PT("OpenBracket"), n, PT("CloseBracket")>> :
        w \in WsRuns, n \in Indexes}

ListRefLists ==
    {r \o t : r \in ListRefForms, t \in Tails}
    \cup {<<PT("OpenBracket")>> \o r \o <<PT("Comma"), PT("CloseBracket")>> :
            r \in ListRefForms}
    \cup {<<PT("OpenBrace"), SymTok("k"), PT("Equal")>> \o r
              \o <<PT("Semicolon"), PT("CloseBrace")>> : r \in ListRefForms}

\* `ref = value`, with any whitespace around `=`, and with a stray token
\* between the ref and `=`
Strays == {<<>>, <<SymTok("x")>>, <<PT("Equal")>>}

AssignLists ==
    {r \o w1 \o x \o <<PT("Equal")>> \o w2 \o v \o t :
        r \in RefValues, w1 \in WsRuns, x \in Strays, w2 \in WsRuns,
        v \in Values, t \in {<<>>, <<PT("Semicolon")>>}}

\* `[first, last]` and `[first, last,]`
ListLiterals ==
    {<<PT("OpenBracket")>> \o first \o last \o sep \o <<PT("CloseBracket")>> :
        first \in {<<>>, <<One, PT("Comma"), WS>>}, last \in Values,
        sep \in {<<>>, <<PT("Comma")>>}}

\* `{ a = first; k = value }` and `{ a = first; k = value; }`
EntryLiterals ==
    {<<PT("OpenBrace")>> \o first \o <<SymTok("k")>> \o w \o <<PT("Equal")>> \o w
         \o v \o sep \o <<PT("CloseBrace")>> :
        first \in {<<>>, <<SymTok("a"), PT("Equal"), One, PT("Semicolon"), WS>>},
        w \in WsRuns, v \in Values, sep \in {<<>>, <<PT("Semicolon")>>}}

\* `{ inner; k = c = 1; }`: a `SYMBOL =` as the value of an entry, behind
\* nothing, behind a plain entry and behind an entry holding a map literal
NestedLiterals ==
    {<<PT("OpenBrace")>> \o inner \o <<SymTok("k"), PT("Equal"), SymTok("c")>>
         \o w \o <<PT("Equal")>> \o w \o <<One, PT("Semicolon"), PT("CloseBrace")>> :
        inner \in {<<>>, <<SymTok("a"), PT("Equal"), One, PT("Semicolon")>>}
                  \cup {<<SymTok("m"), PT("Equal")>> \o m \o <<PT("Semicolon")>> :
                           m \in MapValues},
        w \in WsRuns}

GrammarLists ==
    ListRefLists \cup AssignLists \cup ListLiterals \cup EntryLiterals
        \cup NestedLiterals

\* Parser::new on a token list with or without the lexer's closing EoF
GrammarInit ==
    /\ \E toks \in GrammarLists : \E eof \in BOOLEAN :
          parser = [input |-> IF eof THEN Append(toks, PT("EoF")) ELSE toks,
                    parsing_map |-> FALSE, pos |-> 0]
    /\ exprs = <<>>
    /\ parseState = "run"
    /\ parseMsg = ""
    /\ LexIdle
    /\ EvalIdle
    /\ ConvIdle
    /\ CursorIdle

GrammarSpec == GrammarInit /\ [][ParseNext]_vars

\* Parser::parse_input as a function of the token list: [st, exprs]
RECURSIVE parse_input_loop(_, _, _, _)
parse_input_loop(toks, p, pm, es) ==
    IF ~(p <= get_input_len(toks) /\ get_token(toks, p).type # "EoF")
    THEN [st |-> "done", exprs |-> es]
    ELSE LET r == parse_token(toks, p, pm)
         IN  IF r.st # "ok" THEN [st |-> r.st, exprs |-> es]
             ELSE IF r.val = None
             THEN parse_input_loop(toks, parser_advance(r.pos), r.pm, es)
             ELSE IF r.pos = p /\ r.pm = pm
             THEN [st |-> "diverge", exprs |-> Append(es, r.val[1])]
             ELSE parse_input_loop(toks, r.pos, r.pm, Append(es, r.val[1]))

parse_input(toks) == parse_input_loop(toks, 0, FALSE, <<>>)

\* the expressions an expression holds, itself first
RECURSIVE SubExprs(_)
RECURSIVE SubExprsOfAll(_)
Children(e) ==
    CASE e.k = "List" -> e.items
      [] e.k = "Map" ->
            LET keys == key_seq(DOMAIN e.entries)
            IN  [i \in 1..Len(keys) |-> e.entries[keys[i]]]
      [] e.k = "VarDecl" -> <<e.name, e.value>>
      [] e.k = "FnCall" -> e.args
      [] e.k = "MapRef" -> <<e.sym, e.attr>>
      [] e.k = "ListRef" -> <<e.sym>>
      [] OTHER -> <<>>

SubExprsOfAll(es) ==
    IF es = <<>> THEN <<>> ELSE SubExprs(Head(es)) \o SubExprsOfAll(Tail(es))

SubExprs(e) == <<e>> \o SubExprsOfAll(Children(e))

\* every expression in the tree parse_input has built so far
Parsed == SubExprsOfAll(exprs)

\* the token list without the EoF the lexer may have closed it with
Source ==
    IF parser.input # <<>> /\ parser.input[Len(parser.input)].type = "EoF"
    THEN SubSeq(parser.input, 1, Len(parser.input) - 1)
    ELSE parser.input

ParseEnded == parseState \in {"done", "panic", "diverge"}

-----------------------------------------------------------------------------
(***************************************************************************)
(* Claims about the parser (GrammarSpec, ParseSpec).                       *)
(***************************************************************************)
\* the tokens `name [ n ]` stand at positions j .. j+3 of the source, the
\* `[` directly behind the symbol
IndexedAt(j, name) ==
    /\ j + 3 <= Len(Source)
    /\ Source[j].type = "Symbol" /\ Source[j].v = name
    /\ Source[j + 1].type = "OpenBracket"
    /\ Source[j + 2].type = "Number"
    /\ Source[j + 3].type = "CloseBracket"

HasFractionalIndex ==
    \E j \in 1..Len(Source) :
        IndexedAt(j, Source[j].v) /\ Fract(Source[j + 2]) # 0

VarDecls == SelectSeq(Parsed, LAMBDA e : e.k = "VarDecl")

\* C22 (as stated): the target of every VarDecl the parser returns is a
\* Symbol or a MapRef; a binding to any other target, such as a ListRef, is
\* a fatal parse error and no VarDecl.
C22_VarDeclTargetIsSymbolOrMapRef ==
    \A i \in 1..Len(VarDecls) : VarDecls[i].name.k \in {"Symbol", "MapRef"}

\* the environments a parsed VarDecl is evaluated in: the standard one, and
\* the standard one with the list c bound
TargetEnvs ==
    { create_standard_env(EnvNew),
      Bind(create_standard_env(EnvNew), "c", List(<<Num(0), Num(1)>>)) }

\* C22 (amended): the target of every VarDecl the parser returns is a
\* Symbol, a MapRef or a ListRef; the parser does not reject a ListRef
\* target, it is Env::add_variable that does when the VarDecl is evaluated
\* (fatal, in lazy and in eager mode, whatever c is bound to).
C22_ListRefTargetRejectedByEval ==
    \A i \in 1..Len(VarDecls) :
        /\ VarDecls[i].name.k \in {"Symbol", "MapRef", "ListRef"}
        /\ VarDecls[i].name.k = "ListRef"
              => \A E \in TargetEnvs : \A dl \in BOOLEAN :
                    eval(VarDecls[i], E, dl).panic

\* C22 witness: parse_input returned a VarDecl whose target is a ListRef
C22_Witness ==
    /\ parseState = "done"
    /\ \E i \in 1..Len(VarDecls) : VarDecls[i].name.k = "ListRef"

\* the source ends in `, ]` or in `; }`
HasTrailingSeparator ==
    /\ Len(Source) >= 3
    /\ \/ /\ Source[Len(Source)].type = "CloseBracket"
          /\ Source[Len(Source) - 1].type = "Comma"
       \/ /\ Source[Len(Source)].type = "CloseBrace"
          /\ Source[Len(Source) - 1].type = "Semicolon"

\* the token list of the parser without that separator
WithoutTrailingSeparator ==
    SubSeq(Source, 1, Len(Source) - 2) \o <<Source[Len(Source)]>>
        \o SubSeq(parser.input, Len(Source) + 1, Len(parser.input))

\* C23: a list literal parses to the same List with or without a `,` before
\* the closing `]`, and a map literal to the same Map with or without a `;`
\* before the closing `}`, whatever the last element or entry value is.
C23_TrailingSeparatorIsOptional ==
    (ParseEnded /\ HasTrailingSeparator)
    => parse_input(WithoutTrailingSeparator) = [st |-> parseState, exprs |-> exprs]


\* ---------------------------------------------------------------------
\* CursorSpec: the interpreter's cursor over its input
\* (interpreter.rs:150-199)
\* ---------------------------------------------------------------------

MaxProgram == 3

MaxEvents == 4

\* the expressions of the programs handed to Interpreter::new_vector_ast
ProgramForms ==
    { Bool(TRUE), Str("This is a string"), VarDecl(Sym("x"), Num(1)),
      Sym("x") }

RECURSIVE Programs(_)
Programs(n) ==
    IF n = 0 THEN {<<>>}
    ELSE Programs(n - 1) \cup
         {Append(q, f) : q \in {r \in Programs(n - 1) : Len(r) = n - 1},
                         f \in ProgramForms}

\* advance without the bound check
interpreter_advance_unchecked(I) == [I EXCEPT !.pos = I.pos + 1]

\* Interpreter::advance
interpreter_advance(I) ==
    IF I.pos + 1 < Len(I.input) THEN [I EXCEPT !.pos = I.pos + 1] ELSE I

\* Interpreter::get_input: vec[self.pos].clone(), an index out of the
\* vector panics
get_input(I) ==
    IF I.pos < Len(I.input)
    THEN [panic |-> FALSE, val |-> I.input[I.pos + 1]]
    ELSE [panic |-> TRUE, val |-> [k |-> "NoForm"]]

\* Interpreter::new_vector_ast(program), then create_standard_env()
CursorInit ==
    /\ LexIdle
    /\ ParseIdle
    /\ ConvIdle
    /\ \E program \in Programs(MaxProgram) :
          interp = [input |-> program, pos |-> 0]
    /\ history = <<>>
    /\ env = create_standard_env(EnvNew)
    /\ disable_lazy \in BOOLEAN
    /\ result = [panic |-> FALSE, val |-> None]
    /\ ran = <<>>
    /\ lastForm = [k |-> "NoForm"]
    /\ envBefore = env
    /\ made = {}
    /\ nCalls = 0
    /\ evalState = "run"

\* interpreter.advance()
Advance ==
    /\ evalState = "run"
    /\ Len(history) < MaxEvents
    /\ interp' = interpreter_advance(interp)
    /\ history' = Append(history, [op |-> "advance", from |-> interp.pos,
                                   to |-> interp'.pos,
                                   form |-> [k |-> "NoForm"]])
    /\ UNCHANGED <<lexVars, parseVars, evalVars, convVars>>

\* the state after Interpreter::eval() fetched g with get_input
EvalFetched(g) ==
    /\ IF g.panic
       THEN Evaluated(g.val, [panic |-> TRUE, val |-> None, env |-> env,
                              ran |-> <<>>])
       ELSE Evaluate(g.val)
    /\ history' = Append(history, [op |-> "eval", from |-> interp.pos,
                                   to |-> interp'.pos, form |-> g.val])

\* interpreter.eval()
EvalCurrent ==
    /\ evalState = "run"
    /\ Len(history) < MaxEvents
    /\ nCalls < MaxCalls
    /\ interp' = interp
    /\ EvalFetched(get_input(interp))
    /\ UNCHANGED <<lexVars, parseVars, convVars>>

CursorNext == Advance \/ EvalCurrent

CursorSpec == CursorInit /\ [][CursorNext]_vars

\* ---------------------------------------------------------------------
\* Claims about the cursor (CursorSpec)
\* ---------------------------------------------------------------------

\* the number of advance calls among the first j calls
RECURSIVE AdvancesBefore(_)
AdvancesBefore(j) ==
    IF j = 0 THEN 0
    ELSE AdvancesBefore(j - 1) + (IF history[j].op = "advance" THEN 1 ELSE 0)

Min(a, b) == IF a < b THEN a ELSE b

\* C24: over an input of n >= 1 expressions the cursor satisfies
\* 0 <= pos <= n - 1; advance moves it one step forward when it is not on
\* the last expression and leaves it there otherwise; eval leaves it where
\* it is and evaluates the expression under it, so that the eval after k
\* advances evaluates expression min(k, n - 1) (counted from 0): the
\* expressions are evaluated left to right and the last one again when
\* advance is called at the end
C24_CursorStaysInsideInput ==
    LET n == Len(interp.input)
    IN  n >= 1 =>
          /\ 0 <= interp.pos /\ interp.pos <= n - 1
          /\ \A j \in 1..Len(history) :
                /\ history[j].from = (IF j = 1 THEN 0 ELSE history[j - 1].to)
                /\ history[j].op = "advance" =>
                      history[j].to = (IF history[j].from < n - 1
                                       THEN history[j].from + 1
                                       ELSE history[j].from)
                /\ history[j].op = "eval" =>
                      /\ history[j].to = history[j].from
                      /\ history[j].from = Min(AdvancesBefore(j), n - 1)
                      /\ history[j].form = interp.input[history[j].from + 1]
          /\ Len(history) > 0 => interp.pos = history[Len(history)].to

\* advance was called on the last of several expressions and the eval
\* after it evaluated the last expression once more
C24_Witness ==
    /\ Len(interp.input) >= 2
    /\ Len(history) >= 3
    /\ \E j \in 2..Len(history) :
          /\ history[j - 1].op = "advance"
          /\ history[j - 1].from = Len(interp.input) - 1
          /\ history[j - 1].to = history[j - 1].from
          /\ history[j].op = "eval"
          /\ history[j].form = interp.input[Len(interp.input)]

\* ---------------------------------------------------------------------
\* Claims about the parser's loops (ParseSpec)
\* ---------------------------------------------------------------------

AtomTypes == {"String", "Number", "Boolean"}

\* the input is one atom
SingleAtom == Len(Source) = 1 /\ Source[1].type \in AtomTypes

\* C25: parse_input returns or aborts after finitely many steps on every
\* token list: no iteration of the loops of parse_input and parse_parens
\* leaves the cursor where it was (the model's "diverge": the iteration
\* would be repeated for ever), also for a top-level atom, a path or an
\* atom in parentheses, and a single top-level atom parses to exactly one
\* expression
C25_ParserTerminates ==
    /\ parseState # "diverge"
    /\ (SingleAtom /\ ParseEnded) => (parseState = "done" /\ Len(exprs) = 1)

\* ---------------------------------------------------------------------
\* Claims about assignments (GrammarSpec)
\* ---------------------------------------------------------------------

\* what parse_token makes of the tokens v standing alone
Alone(v) == parse_token(Append(v, PT("EoF")), 0, FALSE)

IsExpression(v) == Alone(v).st = "ok" /\ Alone(v).val # None

\* the input is `ref = value`: `=` directly behind the ref, after any
\* whitespace
AssignmentOf(r, v) ==
    \E w1 \in WsRuns, w2 \in WsRuns, t \in {<<>>, <<PT("Semicolon")>>} :
        Source = r \o w1 \o <<PT("Equal")>> \o w2 \o v \o t

\* C26: a MapRef `a.b` or a ListRef `c[i]` directly followed, after any
\* whitespace, by `=` and an expression is parsed to
\* VarDecl(that ref, that expression)
C26_RefAssignmentGivesVarDecl ==
    \A r \in RefValues, v \in Values :
        (ParseEnded /\ AssignmentOf(r, v) /\ IsExpression(v)) =>
            /\ Len(exprs) >= 1
            /\ exprs[1].k = "VarDecl"
            /\ exprs[1].name = Alone(r).val[1]
            /\ exprs[1].value = Alone(v).val[1]

\* ---------------------------------------------------------------------
\* ThunkSpec: thunks forced by eval and inside print
\* (interpreter.rs:239-245, builtins.rs:56-68)
\* ---------------------------------------------------------------------

\* eval_input on a call of print whose argument is the thunk the last call
\* returned
PrintThunk ==
    /\ evalState = "run"
    /\ nCalls < MaxCalls
    /\ ~result.panic /\ result.val # None /\ result.val[1].k = "FnResult"
    /\ Evaluate(FnCall("print", <<result.val[1]>>))
    /\ UNCHANGED <<lexVars, parseVars, convVars, cursorVars>>

ThunkNext == EvalInput \/ Force \/ PrintThunk

ThunkSpec == EvalInit /\ [][ThunkNext]_vars

\* the last call forced a thunk
Forced == lastForm.k = "FnResult"

\* what the body of thunk t does on the environment t captured
Body(t) == call(t.function.f, t.args, t.env)

\* the thunks among the arguments of thunk t
ThunkArgs(t) == SelectSeq(t.args, LAMBDA a : a.k = "FnResult")

\* C27: forcing a thunk, by eval or inside print, runs the built-in on a
\* copy of the captured environment: the interpreter's environment is the
\* one before the call, whatever the built-in inserted; the thunk, and a
\* thunk print forced on the way, still hold the environment they captured
\* (the one of their call site), and forcing them again gives the same
\* result
C27_ForcingLeavesEnvironments ==
    Forced =>
        /\ env = envBefore
        /\ result = Outcome(Body(lastForm))
        /\ Outcome(eval(lastForm, env, disable_lazy)) = result
        /\ \A m \in made :
              (m.thunk = lastForm
                 \/ \E i \in 1..Len(ThunkArgs(lastForm)) :
                       ThunkArgs(lastForm)[i] = m.thunk)
              => /\ m.thunk.env = m.site
                 /\ Outcome(eval(m.thunk, env, disable_lazy)) = m.forced

\* a thunk of vp-r whose body inserted VOID_PACKAGES_REPO_NAME into its
\* copy was forced inside print, itself forced by eval
C27_Witness ==
    /\ Forced
    /\ ~result.panic
    /\ lastForm.function.f = "print"
    /\ Len(ThunkArgs(lastForm)) = 1
    /\ ThunkArgs(lastForm)[1].function.f = "voidpackages_repo"
    /\ ~Body(ThunkArgs(lastForm)[1]).panic
    /\ Body(ThunkArgs(lastForm)[1]).env # ThunkArgs(lastForm)[1].env
    /\ \E m \in made : m.thunk = ThunkArgs(lastForm)[1]

\* ---------------------------------------------------------------------
\* Claims about source positions (LexSpec)
\* ---------------------------------------------------------------------

\* the newlines among the first p characters of the input
NewlinesBefore(p) == {i \in 1..p : input[i] = "\n"}

\* the 1-based line of the character at position p (counted from 0)
LineOf(p) == 1 + Cardinality(NewlinesBefore(p))

\* the 1-based column of the character at position p: its distance from the
\* last newline before it, or from the start of the input
ColOf(p) ==
    LET nl == NewlinesBefore(p)
    IN  IF nl = {} THEN p + 1
        ELSE p + 1 - (CHOOSE i \in nl : \A j \in nl : j <= i)

\* C28: at the start of every token (row, col) of the lexer are the line
\* and the column of the character at its position, and the row and col.0
\* of every token are the line and the column of the first character of
\* its lexeme, whatever tokens (symbols, numbers, newlines) came before
C28_PositionsAreLineAndColumn ==
    /\ (lexState = "run" /\ lex.pos < Len(input)) =>
          (lex.row = LineOf(lex.pos) /\ lex.col = ColOf(lex.pos))
    /\ \A i \in 1..Len(tokens) :
          tokens[i].start < Len(input) =>
             /\ tokens[i].row = LineOf(tokens[i].start)
             /\ tokens[i].col[1] = ColOf(tokens[i].start)

\* ---------------------------------------------------------------------
\* Claims about map literals (GrammarSpec)
\* ---------------------------------------------------------------------

\* the map literals in the tree
Maps == SelectSeq(Parsed, LAMBDA e : e.k = "Map")

\* the expressions below the entries of map literal m
InsideMap(m) == SubExprsOfAll(Children(m))

\* C29: parsing_map is true exactly while the cursor is inside an unclosed
\* map literal: between two top-level expressions it is false, and inside a
\* map literal it is true also behind a nested map literal, so that no
\* `SYMBOL =` met as a value inside a map literal becomes a binding: no
\* VarDecl stands below a Map in the tree
C29_NoBindingInsideMap ==
    /\ parseState \in {"run", "done"} => ~parser.parsing_map
    /\ \A i \in 1..Len(Maps) :
          \A j \in 1..Len(InsideMap(Maps[i])) :
              InsideMap(Maps[i])[j].k # "VarDecl"

\* the entry that may stand before `k = value`
FirstEntries == {<<>>, <<SymTok("a"), PT("Equal"), One, PT("Semicolon"), WS>>}

\* the input is the map literal `{ first k = v }` or `{ first k = v; }`
EntryLiteralOf(first, v) ==
    \E w \in WsRuns, sep \in {<<>>, <<PT("Semicolon")>>} :
        Source = <<PT("OpenBrace")>> \o first \o <<SymTok("k")>> \o w
                    \o <<PT("Equal")>> \o w \o v \o sep \o <<PT("CloseBrace")>>

\* C30: no entry of a map literal the parser accepts is dropped: each entry
\* `SYMBOL = expr` gives its key to the Map, whatever the form of expr, a
\* parenthesized expression included
C30_EveryEntryGivesItsKey ==
    \A first \in FirstEntries, v \in Values :
        (parseState = "done" /\ EntryLiteralOf(first, v)) =>
            /\ Len(exprs) >= 1
            /\ exprs[1].k = "Map"
            /\ Sym("k") \in DOMAIN exprs[1].entries
            /\ first # <<>> => Sym("a") \in DOMAIN exprs[1].entries

====
